---- MODULE Spec2Model ----
(***************************************************************************)
(* Model of the Kuechenschlacht extraction pipeline:                       *)
(*   - data_cleaning.py     (imputation, validity filter)                  *)
(*   - extraction.py        (extract_show_info_chatgpt, batch_extract)     *)
(*   - dataframe_conversion.py (json_to_rows, json_file_to_rows)           *)
(* Nullable values are encoded as <<>> (None / NaN) or <<v>> (value v).    *)
(* Python strings are sequences of one-character strings.                  *)
(***************************************************************************)
EXTENDS Integers, Sequences, FiniteSets, TLC

VARIABLES
    cpc,               \* data_cleaning.py: position in the script
    df_csv,            \* data_cleaning.py: the table as read from the CSV
    df,                \* data_cleaning.py: the working table
    episodes_to_drop,  \* data_cleaning.py: keys found by the duplicate check
    dropped_report,    \* data_cleaning.py: count printed by the drop branch
    episode_df,        \* data_cleaning.py: the episode-level table
    transcript_files,  \* batch_extract: the *.txt files of transcript_folder
    video_folder,      \* batch_extract: TRUE when a video_folder is passed
    skip_existing,     \* batch_extract: the skip_existing argument
    output_folder,     \* batch_extract: the <stem>.json file of each transcript
    pc,                \* position in batch_extract / extract_show_info_chatgpt
    run,               \* number of batch_extract calls started so far
    idx,               \* batch_extract: loop index into transcript_files
    extractions,       \* batch_extract: the dict that is returned
    metadata,          \* metadata of the transcript being processed
    expected_candidates, \* extract_show_info_chatgpt: expected_candidates
    candidates,        \* extract_show_info_chatgpt: candidates
    found_names,       \* extract_show_info_chatgpt: names listed in the retry prompt
    candidates_data,   \* extract_show_info_chatgpt: candidate list parsed from response1
    results,           \* extract_show_info_chatgpt: results
    extraction_json,   \* value returned by extract_show_info_chatgpt
    calls,             \* oracle calls made for the transcript being processed
    attached,          \* index of the result merged into each candidate
    oracle_calls,      \* oracle calls per transcript in the current run
    oracle_failed,     \* transcripts with a failed oracle call in the current run
    folder_at_start,   \* output_folder when the current run started
    file_rows,         \* folder_to_dataframe: rows obtained from each JSON file
    all_rows,          \* folder_to_dataframe: all_rows
    cleaned_df,        \* step4_save_and_analyze: the table returned by clean_dataframe
    video_files        \* run_full_pipeline: the *.mp4 files of the video folder

clean_vars == <<cpc, df_csv, df, episodes_to_drop, dropped_report, episode_df>>
input_vars == <<transcript_files, video_folder, skip_existing>>
extract_vars == <<metadata, expected_candidates, candidates, found_names, candidates_data, results,
                  extraction_json, calls, attached>>
batch_vars == <<output_folder, pc, run, idx, extractions, oracle_calls, oracle_failed,
                folder_at_start>>
batch_vars_but_pc == <<output_folder, run, idx, extractions, oracle_calls, oracle_failed,
                       folder_at_start>>
convert_vars == <<file_rows, all_rows, cleaned_df>>
pipeline_vars == <<video_files>>
vars == <<clean_vars, input_vars, extract_vars, batch_vars, convert_vars, pipeline_vars>>

(***************************************************************************)
(* Bounds                                                                  *)
(***************************************************************************)
MaxRows == 3
MaxRank == 2
MaxIdentity == 2
MaxRetry == 2
MaxResults == 2
MaxTranscripts == 2
MaxRuns == 2
MaxCoerced == 2

(***************************************************************************)
(* Generic helpers                                                         *)
(***************************************************************************)
NaN == <<>>
Num(v) == <<v>>
IsNull(x) == x = <<>>

RECURSIVE SeqsUpTo(_, _)
SeqsUpTo(S, n) ==
    IF n = 0 THEN {<<>>}
    ELSE LET shorter == SeqsUpTo(S, n - 1)
         IN  shorter \cup {Append(s, e) : s \in {t \in shorter : Len(t) = n - 1}, e \in S}

(***************************************************************************)
(* data_cleaning.py                                                        *)
(***************************************************************************)
\* groupby(['Season', 'Episode']) drops rows whose key contains NaN
GroupKey(row) == <<row.season, row.episode>>
HasKey(row) == ~IsNull(row.season) /\ ~IsNull(row.episode)
Groups(t) == {GroupKey(t[i]) : i \in {j \in DOMAIN t : HasKey(t[j])}}
GroupRows(t, k) == {i \in DOMAIN t : HasKey(t[i]) /\ GroupKey(t[i]) = k}

\* groupby('year_week'): '%Y-%W' of the date, NaN for a missing date
year_week(row) == IF IsNull(row.date) THEN NaN ELSE Num(row.date[1] \div 7)

\* mutant: the backward fill is applied before the forward fill
FillBackwardFirst(t, i, col) ==
    LET same == {j \in DOMAIN t : year_week(t[j]) = year_week(t[i])}
        before == {j \in same : j < i /\ ~IsNull(t[j][col])}
        after == {j \in same : j > i /\ ~IsNull(t[j][col])}
    IN  IF IsNull(year_week(t[i])) THEN NaN
        ELSE IF ~IsNull(t[i][col]) THEN t[i][col]
        ELSE IF after # {} THEN t[CHOOSE m \in after : \A n \in after : m <= n][col]
        ELSE IF before # {} THEN t[CHOOSE m \in before : \A n \in before : n <= m][col]
        ELSE NaN
\* x.fillna(method='ffill').fillna(method='bfill') on one year_week group
FillWithinWeek(t, i, col) ==
    LET same == {j \in DOMAIN t : year_week(t[j]) = year_week(t[i])}
        before == {j \in same : j < i /\ ~IsNull(t[j][col])}
        after == {j \in same : j > i /\ ~IsNull(t[j][col])}
        Max(S) == CHOOSE m \in S : \A n \in S : n <= m
        Min(S) == CHOOSE m \in S : \A n \in S : m <= n
    IN  IF IsNull(year_week(t[i])) THEN NaN
        ELSE IF ~IsNull(t[i][col]) THEN t[i][col]
        ELSE IF before # {} THEN t[Max(before)][col]
        ELSE IF after # {} THEN t[Min(after)][col]
        ELSE NaN

ImputeModerator ==
    /\ cpc = "loaded"
    /\ df' = [i \in DOMAIN df |->
                [df[i] EXCEPT !.moderator_name = FillWithinWeek(df, i, "moderator_name"),
                              !.moderator_gender = FillWithinWeek(df, i, "moderator_gender")]]
    /\ cpc' = "imputed"
    /\ UNCHANGED <<df_csv, episodes_to_drop, dropped_report, episode_df>>
    /\ UNCHANGED <<input_vars, pipeline_vars, extract_vars, batch_vars, convert_vars>>

\* .agg([('distinct', 'nunique'), ('total', 'count')]): both ignore NaN
distinct(t, k, col) == Cardinality({t[i][col] : i \in {j \in GroupRows(t, k) : ~IsNull(t[j][col])}})
total(t, k, col) == Cardinality({i \in GroupRows(t, k) : ~IsNull(t[i][col])})
\* mutant: the comparison tolerates one repeated value
has_duplicates_off_by_one(t, k, col) == distinct(t, k, col) < total(t, k, col) - 1
has_duplicates(t, k, col) == distinct(t, k, col) < total(t, k, col)

\* mutant: the probing-order check is left out of the filter
problematic_order_unchecked(t) == {k \in Groups(t) : FALSE}
problematic_order(t) == {k \in Groups(t) : has_duplicates(t, k, "order_of_probing")}
\* mutant: the ranking check is left out of the filter
problematic_ranking_unchecked(t) == {k \in Groups(t) : FALSE}
problematic_ranking(t) == {k \in Groups(t) : has_duplicates(t, k, "ranking_number")}

\* pd.concat([...]).drop_duplicates()
EpisodesToDrop(t) == problematic_order(t) \cup problematic_ranking(t)

\* left merge with episodes_to_drop.assign(drop=True), keep rows with drop NaN
DropEpisodes(t, drops) == SelectSeq(t, LAMBDA row : ~(HasKey(row) /\ GroupKey(row) \in drops))

CheckAndDropDuplicates ==
    /\ cpc = "imputed"
    /\ episodes_to_drop' = EpisodesToDrop(df)
    /\ IF Cardinality(episodes_to_drop') > 0
       THEN /\ dropped_report' = Num(Cardinality(episodes_to_drop'))
            /\ df' = DropEpisodes(df, episodes_to_drop')
       ELSE /\ dropped_report' = NaN
            /\ df' = df
    /\ cpc' = "filtered"
    /\ UNCHANGED <<df_csv, episode_df>>
    /\ UNCHANGED <<input_vars, pipeline_vars, extract_vars, batch_vars, convert_vars>>

\* Series.str.lower() on the gender codes that occur in the table
str_lower(v) ==
    IF IsNull(v) THEN NaN
    ELSE IF v[1] = "W" THEN Num("w")
    ELSE IF v[1] = "M" THEN Num("m")
    ELSE v

\* (series == value).astype(int): a comparison with NaN is False
astype_int(b) == IF b THEN 1 ELSE 0

\* groupby([...])['Ranking number'].transform('max'): NaN is skipped, a row
\* without group key gets NaN
group_max(t, i, col) ==
    LET vals == IF HasKey(t[i])
                THEN {t[j][col][1] : j \in {n \in GroupRows(t, GroupKey(t[i])) : ~IsNull(t[n][col])}}
                ELSE {}
    IN  IF vals = {} THEN NaN ELSE Num(CHOOSE m \in vals : \A v \in vals : v <= m)

winner(row) == astype_int(row.ranking_number = Num(1))
\* mutant: the last place is taken to be the number of rows of the episode
eliminated_by_row_count(t, i) ==
    astype_int(HasKey(t[i]) /\ t[i].ranking_number = Num(Cardinality(GroupRows(t, GroupKey(t[i])))))
eliminated(t, i) ==
    astype_int(~IsNull(t[i].ranking_number) /\ t[i].ranking_number = group_max(t, i, "ranking_number"))
female_cand(row) == astype_int(str_lower(row.candidate_gender) = Num("w"))
female_jur(row) == astype_int(str_lower(row.juror_gender) = Num("w"))

\* CREATE VARIABLES
WithVariables(t) ==
    [i \in DOMAIN t |->
        [date |-> t[i].date, season |-> t[i].season, episode |-> t[i].episode,
         moderator_name |-> t[i].moderator_name, moderator_gender |-> t[i].moderator_gender,
         candidate_name |-> t[i].candidate_name, candidate_gender |-> t[i].candidate_gender,
         candidate_age |-> t[i].candidate_age, candidate_location |-> t[i].candidate_location,
         candidate_profession |-> t[i].candidate_profession,
         dish |-> t[i].dish, juror |-> t[i].juror, juror_gender |-> t[i].juror_gender,
         order_of_probing |-> t[i].order_of_probing, ranking_number |-> t[i].ranking_number,
         max_ranking |-> group_max(t, i, "ranking_number"),
         winner |-> winner(t[i]), eliminated |-> eliminated(t, i),
         female_cand |-> female_cand(t[i]), female_jur |-> female_jur(t[i])]]

CreateVariables ==
    /\ cpc = "filtered"
    /\ df' = WithVariables(df)
    /\ cpc' = "variables"
    /\ UNCHANGED <<df_csv, episodes_to_drop, dropped_report, episode_df>>
    /\ UNCHANGED <<input_vars, pipeline_vars, extract_vars, batch_vars, convert_vars>>

(***************************************************************************)
(* data_cleaning.py: episode-level aggregation                             *)
(***************************************************************************)
\* groupby sorts the group keys: by season, then by episode
KeyLess(a, b) == a[1][1] < b[1][1] \/ (a[1][1] = b[1][1] /\ a[2][1] < b[2][1])
RECURSIVE SortedKeys(_)
SortedKeys(S) ==
    IF S = {} THEN <<>>
    ELSE LET least == CHOOSE k \in S : \A o \in S \ {k} : KeyLess(k, o)
         IN  <<least>> \o SortedKeys(S \ {least})

\* rows of group k that pass a row filter (df[mask].groupby(...)); a mask is
\* the set of the row positions where the boolean Series is True
Selected(t, k, mask) == GroupRows(t, k) \cap mask
FirstIndex(rows) == CHOOSE i \in rows : \A j \in rows : i <= j
\* GroupBy.first(): the first non-null value of the column, NaN if none
first(t, rows, col) ==
    LET valid == {i \in rows : ~IsNull(t[i][col])}
    IN  IF valid = {} THEN NaN ELSE t[FirstIndex(valid)][col]
\* GroupBy.first() on a column of ints created by astype(int)
first_int(t, rows, col) == Num(t[FirstIndex(rows)][col])
\* GroupBy.count(): number of non-null values
count(t, rows, col) == Cardinality({i \in rows : ~IsNull(t[i][col])})
RECURSIVE sum_int(_, _, _)
sum_int(t, rows, col) ==
    IF rows = {} THEN 0
    ELSE LET i == CHOOSE j \in rows : TRUE
         IN  t[i][col] + sum_int(t, rows \ {i}, col)
RECURSIVE sum_valid(_, _, _)
sum_valid(t, rows, col) ==
    IF rows = {} THEN 0
    ELSE LET i == CHOOSE j \in rows : TRUE
         IN  (IF IsNull(t[i][col]) THEN 0 ELSE t[i][col][1]) + sum_valid(t, rows \ {i}, col)
\* a quotient a / b, kept as the pair of its operands (b = 0: inf or NaN)
Frac(a, b) == [num |-> a, den |-> b]
\* GroupBy.mean(): NaN is skipped, NaN when no value is left
mean(t, rows, col) ==
    IF count(t, rows, col) = 0 THEN NaN
    ELSE Num(Frac(sum_valid(t, rows, col), count(t, rows, col)))

\* df.groupby(['Season', 'Episode']).agg({...}).reset_index() with the
\* renamed columns, share_female_candidates and female_moderator
BasicAggregation(t) ==
    LET keys == SortedKeys(Groups(t))
    IN  [n \in DOMAIN keys |->
            LET rows == GroupRows(t, keys[n])
            IN  [year |-> keys[n][1], episode |-> keys[n][2],
                 date |-> first(t, rows, "date"),
                 n_candidates |-> count(t, rows, "candidate_name"),
                 n_female_candidates |-> sum_int(t, rows, "female_cand"),
                 female_jur |-> first_int(t, rows, "female_jur"),
                 share_female_candidates |->
                     Frac(sum_int(t, rows, "female_cand"), count(t, rows, "candidate_name")),
                 female_moderator |->
                     Num(astype_int(str_lower(first(t, rows, "moderator_gender")) = Num("w")))]]

\* df[mask].groupby(['Season', 'Episode']): one group, with its rows, per
\* key that has a selected row
GroupTable(t, mask) ==
    {[year |-> k[1], episode |-> k[2], rows |-> Selected(t, k, mask)] :
        k \in {g \in Groups(t) : Selected(t, g, mask) # {}}}

IsWinner(t) == {i \in DOMAIN t : t[i].winner = 1}
IsEliminated(t) == {i \in DOMAIN t : t[i].eliminated = 1}
IsFemale(t) == {i \in DOMAIN t : t[i].female_cand = 1}
IsFirstProbed(t) == {i \in DOMAIN t : t[i].order_of_probing = Num(1)}

\* .agg(...).reset_index(): the aggregated columns of each group
female_winner_table(t) ==
    {[year |-> g.year, episode |-> g.episode,
      value |-> [female_winner |-> first_int(t, g.rows, "female_cand")]] :
        g \in GroupTable(t, IsWinner(t))}
female_eliminated_table(t) ==
    {[year |-> g.year, episode |-> g.episode,
      value |-> [female_eliminated |-> first_int(t, g.rows, "female_cand")]] :
        g \in GroupTable(t, IsEliminated(t))}
female_avg(t) ==
    {[year |-> g.year, episode |-> g.episode,
      value |-> [avg_female_ranking |-> mean(t, g.rows, "ranking_number"),
                 avg_female_probing |-> mean(t, g.rows, "order_of_probing")]] :
        g \in GroupTable(t, IsFemale(t))}
first_probing(t) ==
    {[year |-> g.year, episode |-> g.episode,
      value |-> [first_probing_winner |-> first_int(t, g.rows, "winner"),
                 first_probing_eliminated |-> first_int(t, g.rows, "eliminated")]] :
        g \in GroupTable(t, IsFirstProbed(t))}
\* mutant: the outcome of the row probed first, under the last_probing names
last_probing_of_first(t) ==
    {[year |-> g.year, episode |-> g.episode,
      value |-> [last_probing_winner |-> first_int(t, g.rows, "winner"),
                 last_probing_eliminated |-> first_int(t, g.rows, "eliminated")]] :
        g \in GroupTable(t, IsFirstProbed(t))}
\* df.merge(max_probing) is an inner join: only rows with a group key stay,
\* and NaN == max_probing is False
last_probing(t) ==
    LET IsLastProbed ==
            {i \in DOMAIN t :
                /\ HasKey(t[i]) /\ ~IsNull(t[i].order_of_probing)
                /\ t[i].order_of_probing = group_max(t, i, "order_of_probing")}
    IN  {[year |-> g.year, episode |-> g.episode,
          value |-> [last_probing_winner |-> first_int(t, g.rows, "winner"),
                     last_probing_eliminated |-> first_int(t, g.rows, "eliminated")]] :
            g \in GroupTable(t, IsLastProbed)}

\* the columns a right table adds, all NaN (a left row without partner)
NaNColumns(cols) == [c \in cols |-> NaN]
RECURSIVE SetToSeq(_)
SetToSeq(S) ==
    IF S = {} THEN <<>>
    ELSE LET e == CHOOSE x \in S : TRUE IN <<e>> \o SetToSeq(S \ {e})
RECURSIVE Flatten(_)
Flatten(ss) == IF ss = <<>> THEN <<>> ELSE Head(ss) \o Flatten(Tail(ss))
\* mutant: an inner join, a left row without partner is lost
inner_merge(left, right, cols) ==
    Flatten([n \in DOMAIN left |->
        LET partners == {r \in right : r.year = left[n].year /\ r.episode = left[n].episode}
        IN  [m \in DOMAIN SetToSeq(partners) |-> SetToSeq(partners)[m].value @@ left[n]]])
\* left.merge(right, on=['year', 'Episode'], how='left'): every left row once
\* per partner in right, once with NaN when it has none
left_merge(left, right, cols) ==
    Flatten([n \in DOMAIN left |->
        LET partners == {r \in right : r.year = left[n].year /\ r.episode = left[n].episode}
        IN  IF partners = {} THEN <<NaNColumns(cols) @@ left[n]>>
            ELSE [m \in DOMAIN SetToSeq(partners) |-> SetToSeq(partners)[m].value @@ left[n]]])

\* mutant: the NaN of an unmatched left row is kept
fillna_skipped(v) == v
\* fillna(0).astype(int)
fillna_0(v) == IF IsNull(v) THEN Num(0) ELSE v

binary_cols ==
    {"female_winner", "female_eliminated", "female_moderator",
     "first_probing_winner", "first_probing_eliminated",
     "last_probing_winner", "last_probing_eliminated"}

fill_binary(e) ==
    [n \in DOMAIN e |->
        [c \in DOMAIN e[n] |->
            IF c \in binary_cols THEN fillna_0(e[n][c]) ELSE e[n][c]]]

EpisodeLevel(t) ==
    LET e0 == BasicAggregation(t)
        e1 == left_merge(e0, female_winner_table(t), {"female_winner"})
        e2 == left_merge(e1, female_eliminated_table(t), {"female_eliminated"})
        e3 == left_merge(e2, female_avg(t), {"avg_female_ranking", "avg_female_probing"})
        e4 == left_merge(e3, first_probing(t), {"first_probing_winner", "first_probing_eliminated"})
        e5 == left_merge(e4, last_probing(t), {"last_probing_winner", "last_probing_eliminated"})
    IN  fill_binary(e5)

\* EPISODE-LEVEL AGGREGATION
Aggregate ==
    /\ cpc = "variables"
    /\ episode_df' = EpisodeLevel(df)
    /\ cpc' = "aggregated"
    /\ UNCHANGED <<df_csv, df, episodes_to_drop, dropped_report>>
    /\ UNCHANGED <<input_vars, pipeline_vars, extract_vars, batch_vars, convert_vars>>

\* the extraction pipeline is not running
NoBatch ==
    /\ transcript_files = <<>> /\ video_files = <<>> /\ video_folder = FALSE /\ skip_existing = FALSE
    /\ output_folder = <<>> /\ pc = "off" /\ run = 0 /\ idx = 0
    /\ extractions = <<>> /\ metadata = <<>> /\ expected_candidates = 0
    /\ candidates = <<>> /\ found_names = <<>> /\ candidates_data = <<>> /\ results = <<>> /\ extraction_json = <<>>
    /\ calls = <<>> /\ attached = <<>> /\ oracle_calls = <<>>
    /\ oracle_failed = <<>> /\ folder_at_start = <<>>
    /\ file_rows = <<>> /\ all_rows = <<>> /\ cleaned_df = <<>>

(***************************************************************************)
(* Inputs of the cleaning script: candidate tables                         *)
(***************************************************************************)
\* two keyed episodes and one row kind whose season identifier is missing
KeyPool == {<<Num(2023), Num(1)>>, <<Num(2023), Num(2)>>, <<NaN, Num(1)>>}
RankValues == {NaN} \cup {Num(v) : v \in 1..MaxRank}

CleanRow(k, o, r) ==
    [date |-> Num(0), season |-> k[1], episode |-> k[2],
     moderator_name |-> NaN, moderator_gender |-> NaN,
     candidate_name |-> Num("Max"), candidate_gender |-> Num("m"),
     candidate_age |-> NaN, candidate_location |-> NaN, candidate_profession |-> NaN,
     dish |-> Num("Rinderfilet"), juror |-> NaN, juror_gender |-> NaN,
     order_of_probing |-> o, ranking_number |-> r]

CleanRowPool == {CleanRow(k, o, r) : k \in KeyPool, o \in RankValues, r \in RankValues}

InitClean ==
    /\ cpc = "loaded"
    /\ df_csv \in SeqsUpTo(CleanRowPool, MaxRows)
    /\ df = df_csv
    /\ episodes_to_drop = {}
    /\ dropped_report = NaN
    /\ episode_df = <<>>
    /\ NoBatch

NextClean == ImputeModerator \/ CheckAndDropDuplicates

SpecClean == InitClean /\ [][NextClean]_vars

(***************************************************************************)
(* Inputs of the whole cleaning script                                     *)
(***************************************************************************)
ScriptRow(date, k, moderator, name, gender, juror, o, r) ==
    [date |-> date, season |-> k[1], episode |-> k[2],
     moderator_name |-> moderator[1], moderator_gender |-> moderator[2],
     candidate_name |-> name, candidate_gender |-> gender,
     candidate_age |-> NaN, candidate_location |-> NaN, candidate_profession |-> NaN,
     dish |-> Num("Rinderfilet"), juror |-> juror[1], juror_gender |-> juror[2],
     order_of_probing |-> o, ranking_number |-> r]

NoPerson == <<NaN, NaN>>
Lafer == <<Num("Johann Lafer"), Num("m")>>
Poletto == <<Num("Cornelia Poletto"), Num("w")>>
Klipp == <<Num("Zora Klipp"), Num("w")>>

\* one row per episode; the rows differ in week, moderator and juror.
\* Day 0 is a Monday: days 0 and 7 lie in consecutive reporting weeks; a row
\* whose 'Date of Show' is empty has no reporting week.
WeekRowPool(episode) ==
    {ScriptRow(Num(d), <<Num(2023), Num(episode)>>, m, Num("Max"), Num("m"), j, Num(1), Num(1)) :
        d \in {0, 7}, m \in {NoPerson, Lafer, Poletto}, j \in {NoPerson, Klipp}}
    \cup {ScriptRow(NaN, <<Num(2023), Num(episode)>>, m, Num("Max"), Num("m"), NoPerson, Num(1), Num(1)) :
              m \in {NoPerson, Poletto}}
WeekTables ==
    LET T[n \in 0..MaxRows] ==
            IF n = 0 THEN {<<>>}
            ELSE {Append(t, row) : t \in T[n - 1], row \in WeekRowPool(n)}
    IN  UNION {T[n] : n \in 0..MaxRows}

\* the rows of one episode; they differ in candidate, probing order and rank
OrderRankPairs ==
    {<<NaN, NaN>>, <<NaN, Num(1)>>, <<Num(1), Num(1)>>, <<Num(1), Num(2)>>,
     <<Num(2), Num(1)>>, <<Num(2), Num(2)>>, <<Num(2), Num(3)>>, <<Num(3), Num(3)>>}
EpisodeRow(name, gender, p) ==
    ScriptRow(Num(0), <<Num(2023), Num(1)>>, NoPerson, name, gender, Klipp, p[1], p[2])
EpisodeRowPool ==
    {EpisodeRow(Num("Max"), Num(g), p) : g \in {"m", "w"}, p \in OrderRankPairs}
    \cup {EpisodeRow(Num("Max"), Num("W"), <<Num(1), Num(1)>>),
          EpisodeRow(NaN, Num("w"), <<Num(2), Num(2)>>),
          EpisodeRow(NaN, Num("w"), <<NaN, NaN>>),
          EpisodeRow(Num("Max"), NaN, <<Num(2), Num(2)>>)}

\* rows of several episodes, one of them without season identifier
SeasonRowPool ==
    {ScriptRow(Num(0), k, Poletto, Num("Max"), Num("w"), NoPerson, p[1], p[2]) :
        k \in {<<Num(2023), Num(1)>>, <<Num(2023), Num(2)>>, <<Num(2022), Num(2)>>,
               <<NaN, Num(1)>>},
        p \in {<<NaN, NaN>>, <<Num(1), Num(1)>>, <<Num(2), Num(2)>>}}

InitScript ==
    /\ cpc = "loaded"
    /\ df_csv \in WeekTables \cup SeqsUpTo(EpisodeRowPool, MaxRows)
                     \cup SeqsUpTo(SeasonRowPool, MaxRows)
    /\ df = df_csv
    /\ episodes_to_drop = {}
    /\ dropped_report = NaN
    /\ episode_df = <<>>
    /\ NoBatch

NextScript == ImputeModerator \/ CheckAndDropDuplicates \/ CreateVariables \/ Aggregate

SpecScript == InitScript /\ [][NextScript]_vars

(***************************************************************************)
(* Python values used by extraction.py and dataframe_conversion.py         *)
(***************************************************************************)
None == <<>>
\* a dict key that is not present (dict.get then yields its default)
Missing == <<"key", "missing">>
Get(v, default) == IF v = Missing THEN default ELSE v
\* truth value of an optional int / an optional str
TruthyInt(v) == v # Missing /\ v # None /\ v[1] # 0
TruthyStr(v) == v # Missing /\ v # None /\ v[1] # ""

Range(s) == {s[i] : i \in DOMAIN s}

\* str.lower() on the letters that occur in the names of the model
UpperChars == <<"A", "M", "S", "W", "X">>
LowerChars == <<"a", "m", "s", "w", "x">>
lower_char(c) ==
    IF \E i \in DOMAIN UpperChars : UpperChars[i] = c
    THEN LowerChars[CHOOSE i \in DOMAIN UpperChars : UpperChars[i] = c]
    ELSE c
lower(s) == [i \in DOMAIN s |-> lower_char(s[i])]

\* str.strip()
RECURSIVE lstrip(_)
lstrip(s) == IF s # <<>> /\ Head(s) = " " THEN lstrip(Tail(s)) ELSE s
RECURSIVE rstrip(_)
rstrip(s) == IF s # <<>> /\ s[Len(s)] = " " THEN rstrip(SubSeq(s, 1, Len(s) - 1)) ELSE s
strip(s) == rstrip(lstrip(s))

\* a in b
contains(a, b) == \E i \in 0..(Len(b) - Len(a)) : SubSeq(b, i + 1, i + Len(a)) = a

\* s.split()[0] for a string with at least one word
first_word(s) ==
    LET t == lstrip(s)
        sp == {i \in DOMAIN t : t[i] = " "}
    IN  IF sp = {} THEN t ELSE SubSeq(t, 1, (CHOOSE i \in sp : \A j \in sp : i <= j) - 1)

(***************************************************************************)
(* extraction.py: merge of the identity pass with the order/rank pass      *)
(***************************************************************************)
exact_match(result_name, candidate_name) == result_name = candidate_name
substring_match(result_name, candidate_name) ==
    contains(result_name, candidate_name) \/ contains(candidate_name, result_name)
first_name_match(result_name, candidate_name) ==
    IF " " \in Range(candidate_name)
    THEN first_word(result_name) = first_word(candidate_name)
    ELSE FALSE

\* the condition of the if in the matching loop
name_matches(result_name, candidate_name) ==
    \/ exact_match(result_name, candidate_name)
    \/ substring_match(result_name, candidate_name)
    \/ first_name_match(result_name, candidate_name)

AttributeError == 0 - 1
NoMatch == 0

\* a result the matching loop does not skip
usable_result(result) ==
    /\ result.is_dict
    /\ Get(result.name, Num(<<>>)) # None
    /\ lower(strip(Get(result.name, Num(<<>>))[1])) # <<>>

\* mutant: the loop has no break, the last matching result wins
find_matching_result_no_break(results_, candidate_name, j) ==
    LET hits == {k \in j..Len(results_) :
                    /\ usable_result(results_[k])
                    /\ name_matches(lower(strip(results_[k].name[1])), candidate_name)}
    IN  IF \E k \in j..Len(results_) :
               results_[k].is_dict /\ Get(results_[k].name, Num(<<>>)) = None
        THEN AttributeError
        ELSE IF hits = {} THEN NoMatch
        ELSE CHOOSE k \in hits : \A h \in hits : h <= k

\* for result in results: ... break; yields the index of matching_result,
\* NoMatch, or AttributeError when result.get('name', '') is None
RECURSIVE find_matching_result(_, _, _)
find_matching_result(results_, candidate_name, j) ==
    IF j > Len(results_) THEN NoMatch
    ELSE LET result == results_[j]
         IN  IF ~result.is_dict THEN find_matching_result(results_, candidate_name, j + 1)
             ELSE IF Get(result.name, Num(<<>>)) = None THEN AttributeError
             ELSE LET result_name == lower(strip(Get(result.name, Num(<<>>))[1]))
                  IN  IF result_name = <<>>
                      THEN find_matching_result(results_, candidate_name, j + 1)
                      ELSE IF name_matches(result_name, candidate_name) THEN j
                      ELSE find_matching_result(results_, candidate_name, j + 1)

\* index of the result merged into one candidate (candidate names are strings
\* here: a missing or None name has raised before the merge)
matching_index(results_, candidate) ==
    LET candidate_name == lower(strip(Get(candidate.name, Num(<<>>))[1]))
    IN  IF candidate_name = <<>> THEN NoMatch
        ELSE find_matching_result(results_, candidate_name, 1)

\* mutant: a candidate without matching result is left as it is
merge_candidate_matched_only(results_, candidate) ==
    LET m == matching_index(results_, candidate)
    IN  IF m > 0
        THEN [candidate EXCEPT !.probing_order = Get(results_[m].probing_order, None),
                               !.ranking = Get(results_[m].ranking, None)]
        ELSE candidate
\* if matching_result: ... else: candidate['probing_order'] = None, ...
merge_candidate(results_, candidate) ==
    LET m == matching_index(results_, candidate)
    IN  IF m > 0
        THEN [candidate EXCEPT !.probing_order = Get(results_[m].probing_order, None),
                               !.ranking = Get(results_[m].ranking, None)]
        ELSE [candidate EXCEPT !.probing_order = None, !.ranking = None]

\* SCHRITT 3: the candidates after the merge, or "raise"
merge_raises(candidates_, results_) ==
    /\ results_ # <<>>
    /\ \E i \in DOMAIN candidates_ : matching_index(results_, candidates_[i]) = AttributeError
merge_results(candidates_, results_) ==
    IF results_ = <<>>
    THEN [i \in DOMAIN candidates_ |->
            [candidates_[i] EXCEPT !.probing_order = None, !.ranking = None]]
    ELSE [i \in DOMAIN candidates_ |-> merge_candidate(results_, candidates_[i])]
\* which result (index, or NoMatch) each candidate received
merge_attached(candidates_, results_) ==
    IF results_ = <<>>
    THEN [i \in DOMAIN candidates_ |-> NoMatch]
    ELSE [i \in DOMAIN candidates_ |-> matching_index(results_, candidates_[i])]

(***************************************************************************)
(* extraction.py: extract_show_info_chatgpt                                *)
(***************************************************************************)
\* juror_from_metadata / moderator_from_metadata (None without a name hint)
juror_from_metadata(metadata_) ==
    IF metadata_ # None /\ TruthyStr(metadata_[1].juror_name)
    THEN Num([name |-> metadata_[1].juror_name,
              gender |-> Get(metadata_[1].juror_gender, Num("m"))])
    ELSE None
moderator_from_metadata(metadata_) ==
    IF metadata_ # None /\ TruthyStr(metadata_[1].moderator_name)
    THEN Num([name |-> metadata_[1].moderator_name,
              gender |-> Get(metadata_[1].moderator_gender, Num("m"))])
    ELSE None

\* mutant: the weekend gets the Monday count
candidates_by_day_weekend_6(day_num) ==
    CASE day_num = 0 -> 6
      [] day_num = 1 -> 5
      [] day_num = 2 -> 4
      [] day_num = 3 -> 3
      [] day_num = 4 -> 2
      [] OTHER -> 6
\* candidates_by_day.get(day_num, 5)
candidates_by_day(day_num) ==
    CASE day_num = 0 -> 6
      [] day_num = 1 -> 5
      [] day_num = 2 -> 4
      [] day_num = 3 -> 3
      [] day_num = 4 -> 2
      [] OTHER -> 5

\* expected_candidates: the metadata hint, else the weekday table, else 5
expected_count(metadata_, date) ==
    LET hint == IF metadata_ # None THEN metadata_[1].num_candidates ELSE None
    IN  IF TruthyInt(hint) THEN hint[1]
        ELSE IF date[1].parses THEN candidates_by_day(date[1].weekday)
        ELSE 5

\* [c['name'] for c in candidates] raises KeyError
name_key_missing(candidates_) == \E i \in DOMAIN candidates_ : candidates_[i].name = Missing
\* ', '.join(names) raises TypeError, c['name'].lower() raises AttributeError
name_is_none(candidates_) == \E i \in DOMAIN candidates_ : candidates_[i].name = None
\* [c['dish'] for c in candidates] raises KeyError
dish_key_missing(candidates_) == \E i \in DOMAIN candidates_ : candidates_[i].dish = Missing
\* candidate_names / candidate_dishes / prompt_step2 raise before the order/rank call
prompt_step2_raises(candidates_) ==
    name_key_missing(candidates_) \/ dish_key_missing(candidates_) \/ name_is_none(candidates_)

\* mutant: the except branch hands back what was collected so far
ReturnCollected ==
    /\ extraction_json' = Num([juror |-> None, moderator |-> None, candidates |-> candidates])
    /\ pc' = "returned"
\* except Exception: print(...); return None
ReturnNone ==
    /\ extraction_json' = None
    /\ pc' = "returned"

LogCall(kind, answer) ==
    /\ calls' = Append(calls, kind)
    /\ oracle_calls' = [oracle_calls EXCEPT ![idx] = @ + 1]
    /\ oracle_failed' = [oracle_failed EXCEPT ![idx] = @ \/ answer.kind # "json"]

\* mutant: the retry is issued on any count mismatch
needs_retry_on_any_mismatch(candidates_, expected) == Len(candidates_) # expected
\* mutant: the retry is issued when too many candidates were returned
needs_retry_when_more(candidates_, expected) == Len(candidates_) > expected
\* len(candidates) != expected_candidates and len(candidates) < expected_candidates
needs_retry(candidates_, expected) ==
    Len(candidates_) # expected /\ Len(candidates_) < expected

\* SCHRITT 1: response1 .. the count check, up to the next oracle call
IdentityPass(answer) ==
    /\ pc = "step1"
    /\ LogCall("identity", answer)
    /\ candidates_data' = (IF answer.kind = "json" THEN answer.list ELSE <<>>)
    /\ IF answer.kind # "json"
       THEN ReturnNone /\ UNCHANGED <<candidates, found_names>>
       ELSE /\ candidates' = answer.list
            /\ IF answer.list = <<>> \/ name_key_missing(answer.list)
               THEN ReturnNone /\ UNCHANGED found_names
               ELSE IF needs_retry(answer.list, expected_candidates)
               THEN IF name_is_none(answer.list)
                    THEN ReturnNone /\ UNCHANGED found_names
                    ELSE /\ found_names' = [i \in DOMAIN answer.list |-> answer.list[i].name[1]]
                         /\ pc' = "retry"
                         /\ UNCHANGED extraction_json
               ELSE /\ UNCHANGED found_names
                    /\ IF prompt_step2_raises(answer.list)
                       THEN ReturnNone
                       ELSE pc' = "step2" /\ UNCHANGED extraction_json
    /\ UNCHANGED <<metadata, expected_candidates, results, attached>>
    /\ UNCHANGED <<clean_vars, input_vars, pipeline_vars, convert_vars>>
    /\ UNCHANGED <<output_folder, run, idx, extractions, folder_at_start>>

\* mutant: the exclusion of already found names compares case-sensitively
new_candidates_case_sensitive(candidates_, additional_candidates) ==
    SelectSeq(additional_candidates,
              LAMBDA c : c.name[1] \notin {candidates_[i].name[1] : i \in DOMAIN candidates_})
\* existing_names / new_candidates
new_candidates(candidates_, additional_candidates) ==
    LET existing_names == {lower(candidates_[i].name[1]) : i \in DOMAIN candidates_}
    IN  SelectSeq(additional_candidates, LAMBDA c : lower(c.name[1]) \notin existing_names)

\* Nachsuche: retry_response .. candidates.extend, up to the next oracle call
RetryPass(answer) ==
    /\ pc = "retry"
    /\ LogCall("retry", answer)
    /\ IF answer.kind # "json"
       THEN ReturnNone /\ UNCHANGED candidates
       ELSE IF name_key_missing(answer.list) \/ name_is_none(answer.list)
       THEN ReturnNone /\ UNCHANGED candidates
       ELSE /\ candidates' = candidates \o new_candidates(candidates, answer.list)
            /\ IF prompt_step2_raises(candidates')
               THEN ReturnNone
               ELSE pc' = "step2" /\ UNCHANGED extraction_json
    /\ UNCHANGED <<metadata, expected_candidates, found_names, candidates_data, results, attached>>
    /\ UNCHANGED <<clean_vars, input_vars, pipeline_vars, convert_vars>>
    /\ UNCHANGED <<output_folder, run, idx, extractions, folder_at_start>>

\* SCHRITT 2: response2 and the parse of its results
OrderRankPass(answer) ==
    /\ pc = "step2"
    /\ LogCall("order_rank", answer)
    /\ IF answer.kind # "json"
       THEN ReturnNone /\ UNCHANGED results
       ELSE /\ results' = answer.list
            /\ pc' = "merge"
            /\ UNCHANGED extraction_json
    /\ UNCHANGED <<metadata, expected_candidates, candidates, found_names, candidates_data, attached>>
    /\ UNCHANGED <<clean_vars, input_vars, pipeline_vars, convert_vars>>
    /\ UNCHANGED <<output_folder, run, idx, extractions, folder_at_start>>

\* final_data; the print of the final data calls .get on final_data['juror']
final_data(candidates_, metadata_) ==
    [candidates |-> candidates_,
     juror |-> juror_from_metadata(metadata_),
     moderator |-> moderator_from_metadata(metadata_)]
print_final_raises(metadata_) == juror_from_metadata(metadata_) = None

\* SCHRITT 3: merge, final_data, return
Merge ==
    /\ pc = "merge"
    /\ IF merge_raises(candidates, results)
       THEN /\ UNCHANGED <<candidates, attached>>
            /\ ReturnNone
       ELSE /\ candidates' = merge_results(candidates, results)
            /\ attached' = merge_attached(candidates, results)
            /\ IF print_final_raises(metadata)
               THEN ReturnNone
               ELSE /\ extraction_json' = Num(final_data(candidates', metadata))
                    /\ pc' = "returned"
    /\ UNCHANGED <<metadata, expected_candidates, found_names, candidates_data, results, calls>>
    /\ UNCHANGED <<clean_vars, input_vars, pipeline_vars, convert_vars>>
    /\ UNCHANGED <<output_folder, run, idx, extractions, oracle_calls, oracle_failed,
                   folder_at_start>>

(***************************************************************************)
(* extraction.py: batch_extract                                            *)
(***************************************************************************)
AbsentFile == [kind |-> "absent", data |-> <<>>]
CorruptFile == [kind |-> "corrupt", data |-> <<>>]
JsonFile(data) == [kind |-> "json", data |-> <<data>>]

ResetExtraction ==
    /\ metadata' = None /\ expected_candidates' = 0 /\ candidates' = <<>>
    /\ found_names' = <<>> /\ candidates_data' = <<>> /\ results' = <<>> /\ extraction_json' = None /\ calls' = <<>> /\ attached' = <<>>

StartRun ==
    /\ run' = run + 1
    /\ idx' = 1
    /\ extractions' = [i \in DOMAIN transcript_files |-> None]
    /\ oracle_calls' = [i \in DOMAIN transcript_files |-> 0]
    /\ oracle_failed' = [i \in DOMAIN transcript_files |-> FALSE]
    /\ folder_at_start' = output_folder
    /\ pc' = "loop"
    /\ UNCHANGED <<clean_vars, input_vars, pipeline_vars, extract_vars, output_folder, convert_vars>>

\* batch_extract is called (step2_extract_information)
BatchBegin ==
    /\ pc = "start"
    /\ StartRun

\* the pipeline is run again after batch_extract returned or raised
BatchAgain ==
    /\ pc \in {"done", "raised"}
    /\ run < MaxRuns
    /\ StartRun

\* get_metadata_for_video: None, the parsed dict, or an exception of open/read
metadata_raises(f) == video_folder /\ f.meta.file = "unreadable"
metadata_for_video(f) ==
    IF video_folder /\ f.meta.file = "ok" THEN Num(f.meta.parsed) ELSE None

\* mutant: an existing result file is never taken over
skips_nothing(i) == FALSE
\* if skip_existing and os.path.exists(json_path)
skips_existing(i) == skip_existing /\ output_folder[i].kind # "absent"

\* one iteration of the for loop up to the call of extract_show_info_chatgpt
ProcessTranscript ==
    /\ pc = "loop"
    /\ idx <= Len(transcript_files)
    /\ LET f == transcript_files[idx]
       IN  IF f.date = None
           THEN /\ idx' = idx + 1
                /\ UNCHANGED <<pc, extractions, extract_vars>>
           ELSE IF metadata_raises(f)
           THEN /\ pc' = "raised"
                /\ UNCHANGED <<idx, extractions, extract_vars>>
           ELSE IF skips_existing(idx)
           THEN IF output_folder[idx].kind = "corrupt"
                THEN /\ pc' = "raised"
                     /\ UNCHANGED <<idx, extractions, extract_vars>>
                ELSE /\ extractions' = [extractions EXCEPT ![idx] = output_folder[idx].data]
                     /\ idx' = idx + 1
                     /\ UNCHANGED <<pc, extract_vars>>
           ELSE /\ metadata' = metadata_for_video(f)
                /\ expected_candidates' = expected_count(metadata', f.date)
                /\ pc' = "step1"
                /\ UNCHANGED <<idx, extractions, candidates, found_names, candidates_data, results,
                               extraction_json, calls, attached>>
    /\ UNCHANGED <<clean_vars, input_vars, pipeline_vars, convert_vars>>
    /\ UNCHANGED <<output_folder, run, oracle_calls, oracle_failed, folder_at_start>>

\* if extraction_json: write the file, json.loads, extractions[name] = data
AfterExtraction ==
    /\ pc = "returned"
    /\ IF extraction_json # None
       THEN /\ output_folder' = [output_folder EXCEPT ![idx] = JsonFile(extraction_json[1])]
            /\ extractions' = [extractions EXCEPT ![idx] = extraction_json]
       ELSE UNCHANGED <<output_folder, extractions>>
    /\ idx' = idx + 1
    /\ pc' = "loop"
    /\ ResetExtraction
    /\ UNCHANGED <<clean_vars, input_vars, pipeline_vars, convert_vars>>
    /\ UNCHANGED <<run, oracle_calls, oracle_failed, folder_at_start>>

\* return extractions
BatchReturn ==
    /\ pc = "loop"
    /\ idx > Len(transcript_files)
    /\ pc' = "done"
    /\ UNCHANGED <<clean_vars, input_vars, pipeline_vars, extract_vars, convert_vars>>
    /\ UNCHANGED <<output_folder, run, idx, extractions, oracle_calls, oracle_failed,
                   folder_at_start>>

(***************************************************************************)
(* Inputs of the extraction: transcripts, metadata, oracle answers         *)
(***************************************************************************)
Anna == <<"A", "n", "n", "a">>
AnnaSchmidt == Anna \o <<" ", "S", "c", "h", "m", "i", "d", "t">>
AnnaWeber == Anna \o <<" ", "W", "e", "b", "e", "r">>
AnnaMaria == Anna \o <<" ", "M", "a", "r", "i", "a">>
Max == <<"M", "a", "x">>

\* one element of the 'candidates' list of the identity pass or the retry
Candidate(name, gender, dish) ==
    [name |-> name, gender |-> gender, age |-> None, location |-> None,
     profession |-> None, dish |-> dish,
     probing_order |-> Missing, ranking |-> Missing]

CandidatePool ==
    {Candidate(Num(AnnaSchmidt), Num("w"), Num("Risotto")),
     Candidate(Num(AnnaWeber), Num("w"), Num("Gulasch")),
     Candidate(Num(Max), Num("m"), Num("Rinderfilet")),
     Candidate(Num(lower(Max)), Num("m"), Num("Rinderfilet")),
     Candidate(Num(<<>>), Num("m"), Num("Suppe")),
     Candidate(Missing, Num("m"), Num("Suppe")),
     Candidate(Num(Max), Num("m"), Missing)}

\* one element of the 'results' list of the order/rank pass
Result(name, probing_order, ranking) ==
    [is_dict |-> TRUE, name |-> name, probing_order |-> probing_order, ranking |-> ranking]
NotADict == [is_dict |-> FALSE, name |-> Missing, probing_order |-> Missing, ranking |-> Missing]

ResultPool ==
    {Result(Num(Anna), Num(1), Num(1)),
     Result(Num(lower(AnnaSchmidt)), Num(2), Num(2)),
     Result(Num(AnnaMaria), Num(3), Missing),
     Result(Num(<<" ">> \o Max \o <<" ">>), Num(1), Num(2)),
     Result(Missing, Num(2), Num(1)),
     Result(None, Num(3), Num(3)),
     NotADict}

\* what one oracle call yields: an exception, text that is not JSON, or a
\* JSON object whose list (absent key: the empty default) is answer.list
OracleRaises == [kind |-> "raise", list |-> <<>>]
MalformedJson == [kind |-> "malformed", list |-> <<>>]
JsonAnswer(list) == [kind |-> "json", list |-> list]
Answers(pool, n) == {OracleRaises, MalformedJson} \cup {JsonAnswer(l) : l \in SeqsUpTo(pool, n)}

\* the date string built from the file name, by what strptime and weekday()
\* make of it; None when the file name yields no date
Date(weekday) == Num([parses |-> TRUE, weekday |-> weekday])
UnparsableDate == Num([parses |-> FALSE, weekday |-> 0])

\* the metadata .txt file next to the video
NoMetadataFile == [file |-> "none", parsed |-> <<>>]
UnreadableMetadataFile == [file |-> "unreadable", parsed |-> <<>>]
MetadataFile(num_candidates, juror_name, juror_gender, moderator_name, moderator_gender) ==
    [file |-> "ok",
     parsed |-> [num_candidates |-> num_candidates,
                 juror_name |-> juror_name, juror_gender |-> juror_gender,
                 moderator_name |-> moderator_name, moderator_gender |-> moderator_gender]]

\* a transcript file: what its name yields (date, season, episode) and the
\* metadata file of its video
Transcript(date, meta) ==
    [date |-> date, season |-> Num("2023"), episode |-> Num("189"), meta |-> meta]

ExtractTranscripts ==
    {Transcript(d, m) :
        d \in {Date(4), UnparsableDate},
        m \in {NoMetadataFile,
               MetadataFile(None, Num("Zora Klipp"), Num("w"), None, None),
               MetadataFile(Num(1), Num("Zora Klipp"), Num("w"), Num("Mario Kotaska"), Num("m"))}}

InitBatch(files, folder) ==
    /\ transcript_files = files
    /\ output_folder = folder
    /\ pc = "start" /\ run = 0 /\ idx = 0
    /\ extractions = <<>> /\ oracle_calls = <<>> /\ oracle_failed = <<>>
    /\ folder_at_start = <<>> /\ file_rows = <<>> /\ all_rows = <<>> /\ cleaned_df = <<>>
    /\ metadata = None /\ expected_candidates = 0 /\ candidates = <<>>
    /\ found_names = <<>> /\ candidates_data = <<>> /\ results = <<>> /\ extraction_json = None /\ calls = <<>> /\ attached = <<>>
    /\ cpc = "off" /\ df_csv = <<>> /\ df = <<>>
    /\ episodes_to_drop = {} /\ dropped_report = NaN /\ episode_df = <<>>

\* one transcript, no persisted result, the full oracle
InitExtract ==
    /\ video_files = <<>>
    /\ video_folder = TRUE
    /\ skip_existing = TRUE
    /\ \E t \in ExtractTranscripts : InitBatch(<<t>>, <<AbsentFile>>)

NextExtract ==
    \/ BatchBegin
    \/ ProcessTranscript
    \/ \E a \in Answers(CandidatePool, MaxIdentity) : IdentityPass(a)
    \/ \E a \in Answers(CandidatePool, MaxRetry) : RetryPass(a)
    \/ \E a \in Answers(ResultPool, MaxResults) : OrderRankPass(a)
    \/ Merge
    \/ AfterExtraction
    \/ BatchReturn

SpecExtract == InitExtract /\ [][NextExtract]_vars

(***************************************************************************)
(* dataframe_conversion.py                                                 *)
(***************************************************************************)
EmptyStr == Num("")

\* moderator.get / juror.get raise AttributeError when the value is None
json_to_rows_raises(extraction_data) ==
    /\ extraction_data.candidates # <<>>
    /\ \/ Get(extraction_data.moderator, Num([name |-> Missing, gender |-> Missing])) = None
       \/ Get(extraction_data.juror, Num([name |-> Missing, gender |-> Missing])) = None

\* one row per candidate
json_to_rows(extraction_data, date, season, episode) ==
    LET moderator == Get(extraction_data.moderator, Num([name |-> Missing, gender |-> Missing]))[1]
        juror == Get(extraction_data.juror, Num([name |-> Missing, gender |-> Missing]))[1]
        cands == extraction_data.candidates
    IN  [i \in DOMAIN cands |->
            [date |-> date, season |-> season, episode |-> episode,
             moderator_name |-> Get(moderator.name, EmptyStr),
             moderator_gender |-> Get(moderator.gender, EmptyStr),
             candidate_name |-> Get(cands[i].name, Num(<<>>)),
             candidate_gender |-> Get(cands[i].gender, EmptyStr),
             candidate_age |-> Get(cands[i].age, None),
             candidate_location |-> Get(cands[i].location, EmptyStr),
             candidate_profession |-> Get(cands[i].profession, EmptyStr),
             dish |-> Get(cands[i].dish, EmptyStr),
             juror |-> Get(juror.name, EmptyStr),
             juror_gender |-> Get(juror.gender, EmptyStr),
             order_of_probing |-> Get(cands[i].probing_order, EmptyStr),
             ranking_number |-> Get(cands[i].ranking, EmptyStr)]]

\* try: json.load, json_to_rows; except Exception: return []
json_file_to_rows(file, date, season, episode) ==
    IF file.kind # "json" THEN <<>>
    ELSE IF json_to_rows_raises(file.data[1]) THEN <<>>
    ELSE json_to_rows(file.data[1], date, season, episode)

\* mutant: folder_to_dataframe converts a file whatever its name yields
rows_of_file_any_name(i) ==
    json_file_to_rows(output_folder[i], transcript_files[i].date,
                      transcript_files[i].season, transcript_files[i].episode)
\* the rows of the *.json file of transcript i (none when the file name
\* yields no date)
rows_of_file(i) ==
    IF transcript_files[i].date = None THEN <<>>
    ELSE json_file_to_rows(output_folder[i], transcript_files[i].date,
                           transcript_files[i].season, transcript_files[i].episode)

RECURSIVE concat_rows(_, _)
concat_rows(order, rows) ==
    IF order = <<>> THEN <<>>
    ELSE rows[Head(order)] \o concat_rows(Tail(order), rows)

\* the orders in which glob("*.json") may list the existing files
glob_orders ==
    LET json_files == {i \in DOMAIN output_folder : output_folder[i].kind # "absent"}
    IN  {o \in SeqsUpTo(json_files, Cardinality(json_files)) :
            Len(o) = Cardinality(json_files) /\ Range(o) = json_files}

\* step3_create_dataframe: folder_to_dataframe over the extraction folder
FolderToDataframe ==
    /\ pc = "done"
    /\ \E order \in glob_orders :
           /\ file_rows' = [i \in DOMAIN output_folder |->
                               IF output_folder[i].kind = "absent" THEN <<>> ELSE rows_of_file(i)]
           /\ all_rows' = concat_rows(order, file_rows')
    /\ pc' = "converted"
    /\ UNCHANGED <<clean_vars, input_vars, pipeline_vars, extract_vars, cleaned_df>>
    /\ UNCHANGED <<output_folder, run, idx, extractions, oracle_calls, oracle_failed,
                   folder_at_start>>


(***************************************************************************)
(* utils.py: clean_dataframe                                               *)
(***************************************************************************)
\* df.drop_duplicates(): the first of several equal rows is kept
RECURSIVE drop_duplicates(_)
drop_duplicates(t) ==
    IF t = <<>> THEN <<>>
    ELSE LET front == drop_duplicates(SubSeq(t, 1, Len(t) - 1))
             last_row == t[Len(t)]
         IN  IF \E i \in DOMAIN front : front[i] = last_row THEN front
             ELSE Append(front, last_row)

\* Series.str.strip() on the candidate name (None stays None)
strip_name(v) == IF v = None THEN None ELSE Num(strip(v[1]))

\* a str in a column that also holds numbers: the text, marked as a str
Text(s) == <<s, "str">>
\* a cell holds a str (neither None nor a number)
is_str(v) == Len(v) = 2 \/ (Len(v) = 1 /\ v[1] \notin Int)
\* select_dtypes(include=['object']): a column built from numbers and None
\* only is numeric, a column with a str in it (or of None only) is object
object_dtype(t, col) ==
    \/ \E i \in DOMAIN t : is_str(t[i][col])
    \/ \A i \in DOMAIN t : t[i][col] = None
\* str.strip() on the texts that occur in the numeric columns
strip_text(s) ==
    IF s \in {" 2", "2 ", " 2 "} THEN "2"
    ELSE IF s \in {" 30", "30 "} THEN "30"
    ELSE IF s = " " THEN ""
    ELSE s
\* Series.str.strip(): a cell that is not a str becomes NaN
str_strip(v) == IF is_str(v) THEN Text(strip_text(v[1])) ELSE NaN
\* for col in string_columns: df[col] = df[col].str.strip()
strip_column(t, col, i) ==
    IF object_dtype(t, col) THEN str_strip(t[i][col]) ELSE t[i][col]

\* pd.to_numeric(..., errors='coerce'): a number stays, a str is parsed,
\* None, '' and a str that is no number become NaN
to_numeric(v) ==
    IF v = None THEN NaN
    ELSE IF ~is_str(v) THEN v
    ELSE IF v[1] = "1" THEN Num(1)
    ELSE IF v[1] = "2" THEN Num(2)
    ELSE IF v[1] = "30" THEN Num(30)
    ELSE NaN

\* astype(str).replace('nan', ''): None becomes the string 'None'
astype_str(v) == IF v = None THEN Num("None") ELSE v

\* pd.to_numeric(df['Episode'], errors='coerce') on the episode strings
Episode_num(v) ==
    IF v = Num("188") THEN Num(188)
    ELSE IF v = Num("189") THEN Num(189)
    ELSE NaN

\* Series.str.lower() on the spellings of a gender that occur in the
\* tables; a^ and A^ stand for a-umlaut in lower and upper case
lower_text(s) ==
    IF s \in {"Male", "MALE"} THEN "male"
    ELSE IF s \in {"Female", "FEMALE"} THEN "female"
    ELSE IF s = "Man" THEN "man"
    ELSE IF s = "Woman" THEN "woman"
    ELSE IF s = "MA^NNLICH" THEN "ma^nnlich"
    ELSE IF s = "Weiblich" THEN "weiblich"
    ELSE IF s = "Divers" THEN "divers"
    ELSE IF s = "DIVERSE" THEN "diverse"
    ELSE IF s = "Other" THEN "other"
    ELSE IF s = "Maennlich" THEN "maennlich"
    ELSE IF s = "M" THEN "m"
    ELSE IF s = "W" THEN "w"
    ELSE IF s = "D" THEN "d"
    ELSE s
\* Series.map(gender_mapping): NaN for a key the dict does not hold
gender_map(s) ==
    IF s \in {"ma^nnlich", "male", "man"} THEN Num("m")
    ELSE IF s \in {"weiblich", "female", "woman"} THEN Num("w")
    ELSE IF s \in {"divers", "diverse", "other"} THEN Num("d")
    ELSE NaN
\* mutant: the dict is looked up without str.lower()
gender_mapping_case_sensitive(v) ==
    IF v = None THEN None
    ELSE IF gender_map(v[1]) = NaN THEN v ELSE gender_map(v[1])
\* df[col].str.lower().map(gender_mapping).fillna(df[col])
gender_mapping(v) ==
    IF v = None THEN None
    ELSE IF gender_map(lower_text(v[1])) = NaN THEN v ELSE gender_map(lower_text(v[1]))

\* position of a season string in the order of str comparison
season_rank(v) == IF v = Num("2022") THEN 1 ELSE IF v = Num("2023") THEN 2 ELSE 3

\* row a sorts strictly before row b by ['Date of Show', 'Season',
\* 'Episode_num'] (NaN last)
sorts_before(a, b) ==
    LET ea == Episode_num(a.episode)
        eb == Episode_num(b.episode)
    IN  \/ a.date[1].day < b.date[1].day
        \/ /\ a.date[1].day = b.date[1].day
           /\ \/ season_rank(a.season) < season_rank(b.season)
              \/ /\ season_rank(a.season) = season_rank(b.season)
                 /\ \/ ~IsNull(ea) /\ IsNull(eb)
                    \/ ~IsNull(ea) /\ ~IsNull(eb) /\ ea[1] < eb[1]

\* df.sort_values([...]): rows with equal keys keep their order
RECURSIVE sort_values(_)
sort_values(t) ==
    IF t = <<>> THEN <<>>
    ELSE LET rest == sort_values(Tail(t))
             r == Head(t)
             ahead == {i \in DOMAIN rest : sorts_before(rest[i], r)}
             n == Cardinality({i \in DOMAIN rest : \A j \in 1..i : j \in ahead})
         IN  SubSeq(rest, 1, n) \o <<r>> \o SubSeq(rest, n + 1, Len(rest))

clean_dataframe(t) ==
    LET deduplicated == drop_duplicates(t)
        converted == [i \in DOMAIN deduplicated |->
            [deduplicated[i] EXCEPT
                !.candidate_name = strip_name(@),
                !.order_of_probing = to_numeric(strip_column(deduplicated, "order_of_probing", i)),
                !.ranking_number = to_numeric(strip_column(deduplicated, "ranking_number", i)),
                !.candidate_age = to_numeric(strip_column(deduplicated, "candidate_age", i)),
                !.season = astype_str(@),
                !.episode = astype_str(@),
                !.moderator_gender = gender_mapping(@),
                !.candidate_gender = gender_mapping(@),
                !.juror_gender = gender_mapping(@)]]
    IN  sort_values(converted)

\* step4_save_and_analyze: df = clean_dataframe(df)
CleanDataframe ==
    /\ pc = "converted"
    /\ Len(all_rows) > 0
    /\ cleaned_df' = clean_dataframe(all_rows)
    /\ pc' = "cleaned"
    /\ UNCHANGED <<clean_vars, input_vars, pipeline_vars, extract_vars, batch_vars_but_pc, file_rows, all_rows>>


(***************************************************************************)
(* Inputs of the conversion: an extraction folder after batch_extract      *)
(***************************************************************************)
\* a date taken from a file name; day 0 is a Monday
DayDate(day) == Num([parses |-> TRUE, weekday |-> day % 7, day |-> day])
\* a *.json file name: its date and its (S<year>_E<number>) part, if any
JsonName(date, season, episode) ==
    [date |-> date, season |-> season, episode |-> episode, meta |-> NoMetadataFile]
JsonNames ==
    {JsonName(DayDate(d), se[1], se[2]) :
        d \in {3, 4},
        se \in {<<Num("2023"), Num("188")>>, <<Num("2023"), Num("189")>>, <<None, None>>}}
MergedCandidate(name, gender, order, rank) ==
    [Candidate(Num(name), Num(gender), Num("Rinderfilet"))
        EXCEPT !.probing_order = order, !.ranking = rank]
MergedRecords ==
    {final_data(cs, Num(MetadataFile(Num(1), Num("Zora Klipp"), Num("w"),
                                     Num("Mario Kotaska"), Num("m")).parsed)) :
        cs \in {<<MergedCandidate(Max, "m", Num(1), Num(1))>>,
                <<MergedCandidate(Anna, "female", None, None)>>,
                <<MergedCandidate(Anna \o <<" ">>, "w", Num(1), Num(2)),
                  MergedCandidate(Max, "m", Num(2), Num(1))>>}}

InitConvert ==
    \E fs \in SeqsUpTo(JsonNames \X MergedRecords, MaxTranscripts) :
        /\ transcript_files = [i \in DOMAIN fs |-> fs[i][1]]
        /\ output_folder = [i \in DOMAIN fs |-> JsonFile(fs[i][2])]
        /\ folder_at_start = output_folder
        /\ extractions = [i \in DOMAIN fs |-> Num(fs[i][2])]
        /\ oracle_calls = [i \in DOMAIN fs |-> 0]
        /\ oracle_failed = [i \in DOMAIN fs |-> FALSE]
        /\ video_files = <<>> /\ video_folder = FALSE /\ skip_existing = TRUE
        /\ pc = "done" /\ run = 1 /\ idx = Len(fs) + 1
        /\ file_rows = <<>> /\ all_rows = <<>> /\ cleaned_df = <<>>
        /\ metadata = None /\ expected_candidates = 0 /\ candidates = <<>>
        /\ found_names = <<>> /\ candidates_data = <<>> /\ results = <<>> /\ extraction_json = None
        /\ calls = <<>> /\ attached = <<>>
        /\ cpc = "off" /\ df_csv = <<>> /\ df = <<>>
        /\ episodes_to_drop = {} /\ dropped_report = NaN /\ episode_df = <<>>

NextConvert == FolderToDataframe \/ CleanDataframe

SpecConvert == InitConvert /\ [][NextConvert]_vars

(***************************************************************************)
(* Inputs of the cleaner: raw values of the numeric fields                 *)
(***************************************************************************)
\* what the oracle may put into probing_order / ranking, and into age
RawOrders == {None, Num(1), Num(2), Text("2"), Text(" 2 "), Text("zwei"), Text("")}
RawAges == {None, Num(30), Text("30 "), Text("?")}
RawNames == <<Max, Anna, AnnaMaria>>
\* the n-th candidate of a record; the candidates of a record differ in name
RawCandidate(n, order, rank, age) ==
    [MergedCandidate(RawNames[n], "m", order, rank) EXCEPT !.age = age]
\* the merged records with up to max candidates
RawRecords(max) ==
    LET R[n \in 0..max] ==
            IF n = 0 THEN {<<>>}
            ELSE {Append(cs, RawCandidate(n, o, r, a)) :
                    cs \in R[n - 1], o \in RawOrders, r \in {Num(1), Text("1")}, a \in RawAges}
    IN  {final_data(cs, Num(MetadataFile(Num(1), Num("Zora Klipp"), Num("w"),
                                         Num("Mario Kotaska"), Num("m")).parsed)) :
            cs \in UNION {R[n] : n \in 1..max}}

\* one result file in the extraction folder after batch_extract
InitCoerce ==
    \E data \in RawRecords(MaxCoerced) :
        /\ transcript_files = <<JsonName(DayDate(3), Num("2023"), Num("189"))>>
        /\ output_folder = <<JsonFile(data)>>
        /\ folder_at_start = output_folder
        /\ extractions = <<Num(data)>>
        /\ oracle_calls = <<0>>
        /\ oracle_failed = <<FALSE>>
        /\ video_files = <<>> /\ video_folder = FALSE /\ skip_existing = TRUE
        /\ pc = "done" /\ run = 1 /\ idx = 2
        /\ file_rows = <<>> /\ all_rows = <<>> /\ cleaned_df = <<>>
        /\ metadata = None /\ expected_candidates = 0 /\ candidates = <<>>
        /\ found_names = <<>> /\ candidates_data = <<>> /\ results = <<>> /\ extraction_json = None
        /\ calls = <<>> /\ attached = <<>>
        /\ cpc = "off" /\ df_csv = <<>> /\ df = <<>>
        /\ episodes_to_drop = {} /\ dropped_report = NaN /\ episode_df = <<>>

SpecCoerce == InitCoerce /\ [][NextConvert]_vars

(***************************************************************************)
(* Inputs of the cleaner: spellings of the gender fields                   *)
(***************************************************************************)
GenderSpellings ==
    {"m", "M", "male", "Male", "MALE", "man", "ma^nnlich", "MA^NNLICH", "maennlich",
     "w", "W", "weiblich", "Weiblich", "female", "FEMALE", "woman",
     "d", "divers", "Divers", "DIVERSE", "other", "x", ""}
\* one result file with one candidate; the gender of the candidate comes
\* from the oracle, the genders of juror and moderator from the metadata
GenderRecords ==
    {final_data(<<MergedCandidate(Max, c, Num(1), Num(1))>>,
                Num(MetadataFile(Num(1), Num("Zora Klipp"), Num(j),
                                 Num("Mario Kotaska"), Num(m)).parsed)) :
        c \in GenderSpellings, j \in GenderSpellings, m \in GenderSpellings}

InitGender ==
    \E data \in GenderRecords :
        /\ transcript_files = <<JsonName(DayDate(3), Num("2023"), Num("189"))>>
        /\ output_folder = <<JsonFile(data)>>
        /\ folder_at_start = output_folder
        /\ extractions = <<Num(data)>>
        /\ oracle_calls = <<0>>
        /\ oracle_failed = <<FALSE>>
        /\ video_files = <<>> /\ video_folder = FALSE /\ skip_existing = TRUE
        /\ pc = "done" /\ run = 1 /\ idx = 2
        /\ file_rows = <<>> /\ all_rows = <<>> /\ cleaned_df = <<>>
        /\ metadata = None /\ expected_candidates = 0 /\ candidates = <<>>
        /\ found_names = <<>> /\ candidates_data = <<>> /\ results = <<>> /\ extraction_json = None
        /\ calls = <<>> /\ attached = <<>>
        /\ cpc = "off" /\ df_csv = <<>> /\ df = <<>>
        /\ episodes_to_drop = {} /\ dropped_report = NaN /\ episode_df = <<>>

SpecGender == InitGender /\ [][NextConvert]_vars

\* the merged record of one earlier successful extraction
PersistedData ==
    final_data(<<[Candidate(Num(Max), Num("m"), Num("Rinderfilet"))
                    EXCEPT !.probing_order = Num(1), !.ranking = Num(1)]>>,
               Num(MetadataFile(Num(1), Num("Zora Klipp"), Num("w"), None, None).parsed))

\* a transcript together with the state of its result file; nothing is ever
\* written for a transcript whose name yields no date
BatchMetadata ==
    {NoMetadataFile, UnreadableMetadataFile,
     MetadataFile(Num(1), Num("Zora Klipp"), Num("w"), None, None),
     MetadataFile(Num(1), Num("Zora Klipp"), Num("w"), Num("Mario Kotaska"), Num("m"))}
BatchEpisodes ==
    {e \in {<<Transcript(d, m), f>> :
                d \in {None, Date(4)}, m \in BatchMetadata,
                f \in {AbsentFile, CorruptFile, JsonFile(PersistedData)}} :
        e[1].date # None \/ e[2] = AbsentFile}

BatchCandidatePool == {Candidate(Num(Max), Num("m"), Num("Rinderfilet"))}
BatchResultPool == {Result(Num(Max), Num(1), Num(1))}

\* up to MaxTranscripts transcripts, any state of the extraction folder
InitBatchAny ==
    /\ video_files = <<>>
    /\ video_folder \in BOOLEAN
    /\ skip_existing \in BOOLEAN
    /\ \E es \in SeqsUpTo(BatchEpisodes, MaxTranscripts) :
           InitBatch([i \in DOMAIN es |-> es[i][1]], [i \in DOMAIN es |-> es[i][2]])

\* up to MaxTranscripts transcripts, an empty extraction folder
InitResume ==
    /\ video_files = <<>>
    /\ video_folder \in BOOLEAN
    /\ skip_existing \in BOOLEAN
    /\ \E es \in SeqsUpTo({e \in BatchEpisodes : e[2] = AbsentFile}, MaxTranscripts) :
           InitBatch([i \in DOMAIN es |-> es[i][1]], [i \in DOMAIN es |-> es[i][2]])

NextBatch ==
    \/ BatchBegin
    \/ ProcessTranscript
    \/ \E a \in Answers(BatchCandidatePool, 1) : IdentityPass(a)
    \/ \E a \in Answers(BatchCandidatePool, 1) : RetryPass(a)
    \/ \E a \in Answers(BatchResultPool, 1) : OrderRankPass(a)
    \/ Merge
    \/ AfterExtraction
    \/ BatchReturn
    \/ FolderToDataframe

NextResume ==
    \/ BatchBegin
    \/ BatchAgain
    \/ ProcessTranscript
    \/ \E a \in Answers(BatchCandidatePool, 1) : IdentityPass(a)
    \/ \E a \in Answers(BatchCandidatePool, 1) : RetryPass(a)
    \/ \E a \in Answers(BatchResultPool, 1) : OrderRankPass(a)
    \/ Merge
    \/ AfterExtraction
    \/ BatchReturn

SpecBatch == InitBatchAny /\ [][NextBatch]_vars
SpecResume == InitResume /\ [][NextResume]_vars


\* a persisted merged record that names juror and moderator
ConvertibleData ==
    final_data(<<[Candidate(Num(Max), Num("m"), Num("Rinderfilet"))
                    EXCEPT !.probing_order = Num(1), !.ranking = Num(1)]>>,
               Num(MetadataFile(Num(1), Num("Zora Klipp"), Num("w"),
                                Num("Mario Kotaska"), Num("m")).parsed))
\* transcripts whose name yields no date, next to any state of the
\* extraction folder: a <stem>.json of such a name can only have been put
\* there by hand
UndatedEpisodes ==
    {<<Transcript(d, m), f>> :
        d \in {None, Date(4)},
        m \in {NoMetadataFile, UnreadableMetadataFile,
               MetadataFile(Num(1), Num("Zora Klipp"), Num("w"), Num("Mario Kotaska"), Num("m"))},
        f \in {AbsentFile, CorruptFile, JsonFile(ConvertibleData)}}

InitUndated ==
    /\ video_files = <<>>
    /\ video_folder \in BOOLEAN
    /\ skip_existing \in BOOLEAN
    /\ \E es \in SeqsUpTo(UndatedEpisodes, MaxTranscripts) :
           InitBatch([i \in DOMAIN es |-> es[i][1]], [i \in DOMAIN es |-> es[i][2]])

SpecUndated == InitUndated /\ [][NextBatch]_vars

(***************************************************************************)
(* main.py: run_full_pipeline                                              *)
(***************************************************************************)
\* a video of the video folder: the transcript and the result file of its
\* stem, whether the transcript exists, the index of the transcript among
\* the transcript files (0 without transcript), and, once the video is
\* deleted, what existed when it was deleted
Video(episode, transcript) ==
    [episode |-> episode, transcript |-> transcript, stem |-> 0,
     state |-> "present", deleted_with |-> <<>>]

\* step1_transcribe_videos: a video without transcript gets one unless its
\* transcription fails; an exception outside the per-video try makes the
\* step report failure
TranscribeVideos ==
    /\ pc = "pipeline"
    /\ \E after \in [DOMAIN video_files -> BOOLEAN], ok \in BOOLEAN :
           /\ \A i \in DOMAIN video_files : video_files[i].transcript => after[i]
           /\ LET stem(i) == IF after[i] THEN Cardinality({j \in 1..i : after[j]}) ELSE 0
                  n == Cardinality({j \in DOMAIN video_files : after[j]})
                  of(k) == CHOOSE i \in DOMAIN video_files : stem(i) = k
              IN  /\ transcript_files' = [k \in 1..n |-> video_files[of(k)].episode[1]]
                  /\ output_folder' = [k \in 1..n |-> video_files[of(k)].episode[2]]
                  /\ video_files' = [i \in DOMAIN video_files |->
                         [video_files[i] EXCEPT !.transcript = after[i], !.stem = stem(i)]]
           /\ pc' = IF ok THEN "start" ELSE "aborted"
    /\ UNCHANGED <<clean_vars, video_folder, skip_existing, extract_vars, convert_vars>>
    /\ UNCHANGED <<run, idx, extractions, oracle_calls, oracle_failed, folder_at_start>>

\* step3_create_dataframe returns None for an empty table
NoData ==
    /\ pc = "converted"
    /\ Len(all_rows) = 0
    /\ pc' = "aborted"
    /\ UNCHANGED <<clean_vars, input_vars, pipeline_vars, extract_vars, batch_vars_but_pc, convert_vars>>

\* step4_save_and_analyze: an exception while saving or analysing
SaveFails ==
    /\ pc = "converted"
    /\ Len(all_rows) > 0
    /\ pc' = "aborted"
    /\ UNCHANGED <<clean_vars, input_vars, pipeline_vars, extract_vars, batch_vars_but_pc, convert_vars>>

\* transcript_file.exists(), extraction_file.exists()
transcript_exists(v) == v.transcript
extraction_exists(v) == v.stem > 0 /\ output_folder[v.stem].kind # "absent"
\* if transcript_file.exists() and extraction_file.exists()
safe_to_delete(v) == transcript_exists(v) /\ extraction_exists(v)

\* step5_cleanup_videos: unlink may raise, the video is kept then
CleanupVideos ==
    /\ pc = "cleaned"
    /\ \E unlinked \in [DOMAIN video_files -> BOOLEAN] :
           video_files' = [i \in DOMAIN video_files |->
               IF safe_to_delete(video_files[i]) /\ unlinked[i]
               THEN [video_files[i] EXCEPT
                        !.state = "deleted",
                        !.deleted_with = <<[transcript |-> transcript_exists(video_files[i]),
                                            extraction |-> extraction_exists(video_files[i])]>>]
               ELSE video_files[i]]
    /\ pc' = "finished"
    /\ UNCHANGED <<clean_vars, input_vars, extract_vars, batch_vars_but_pc, convert_vars>>

\* the videos of the folder: with or without transcript, any state of the
\* result file of the same stem
PipelineEpisodes ==
    {<<Transcript(d, NoMetadataFile), f>> :
        d \in {None, Date(4)}, f \in {AbsentFile, CorruptFile, JsonFile(ConvertibleData)}}
VideoPool == {Video(e, t) : e \in PipelineEpisodes, t \in BOOLEAN}

\* step2_extract_information passes no video_folder
InitPipeline ==
    /\ video_files \in SeqsUpTo(VideoPool, MaxTranscripts)
    /\ video_folder = FALSE
    /\ skip_existing \in BOOLEAN
    /\ transcript_files = <<>> /\ output_folder = <<>>
    /\ pc = "pipeline" /\ run = 0 /\ idx = 0
    /\ extractions = <<>> /\ oracle_calls = <<>> /\ oracle_failed = <<>>
    /\ folder_at_start = <<>> /\ file_rows = <<>> /\ all_rows = <<>> /\ cleaned_df = <<>>
    /\ metadata = None /\ expected_candidates = 0 /\ candidates = <<>>
    /\ found_names = <<>> /\ candidates_data = <<>> /\ results = <<>> /\ extraction_json = None
    /\ calls = <<>> /\ attached = <<>>
    /\ cpc = "off" /\ df_csv = <<>> /\ df = <<>>
    /\ episodes_to_drop = {} /\ dropped_report = NaN /\ episode_df = <<>>

NextPipeline ==
    \/ TranscribeVideos
    \/ BatchBegin
    \/ ProcessTranscript
    \/ \E a \in Answers(BatchCandidatePool, 1) : IdentityPass(a)
    \/ \E a \in Answers(BatchCandidatePool, 1) : RetryPass(a)
    \/ \E a \in Answers(BatchResultPool, 1) : OrderRankPass(a)
    \/ Merge
    \/ AfterExtraction
    \/ BatchReturn
    \/ FolderToDataframe
    \/ NoData
    \/ CleanDataframe
    \/ SaveFails
    \/ CleanupVideos

SpecPipeline == InitPipeline /\ [][NextPipeline]_vars

(***************************************************************************)
(* Inputs for the expected candidate count: every weekday, every hint      *)
(***************************************************************************)
HintedTranscripts ==
    {Transcript(d, m) :
        d \in {Date(w) : w \in 0..6} \cup {UnparsableDate},
        m \in {NoMetadataFile} \cup
              {MetadataFile(h, Num("Zora Klipp"), Num("w"), None, None) :
                   h \in {None, Num(0), Num(1), Num(7)}}}

InitExpected ==
    /\ video_files = <<>>
    /\ video_folder \in BOOLEAN
    /\ skip_existing = TRUE
    /\ \E t \in HintedTranscripts : InitBatch(<<t>>, <<AbsentFile>>)

NextExpected ==
    \/ BatchBegin
    \/ ProcessTranscript
    \/ \E a \in Answers(BatchCandidatePool, 1) : IdentityPass(a)
    \/ \E a \in Answers(BatchCandidatePool, 1) : RetryPass(a)
    \/ \E a \in Answers(BatchResultPool, 1) : OrderRankPass(a)
    \/ Merge
    \/ AfterExtraction
    \/ BatchReturn

SpecExpected == InitExpected /\ [][NextExpected]_vars


(***************************************************************************)
(* Claims about the validity filter                                        *)
(***************************************************************************)
\* two different rows of group k carry the same non-null value in column col
SameValueTwice(t, k, col) ==
    \E i, j \in GroupRows(t, k) : i # j /\ ~IsNull(t[i][col]) /\ t[i][col] = t[j][col]
DuplicateEpisode(t, k) ==
    SameValueTwice(t, k, "ranking_number") \/ SameValueTwice(t, k, "order_of_probing")
DuplicateEpisodes(t) == {k \in Groups(t) : DuplicateEpisode(t, k)}

\* C1: an episode of the candidate table with a repeated non-null ranking or
\* probing order has no row in the cleaned table, the number of dropped
\* episodes is reported, and every retained episode has pairwise distinct
\* non-null rankings and probing orders.
C1_ValidityFilter ==
    cpc = "filtered" =>
        /\ \A k \in DuplicateEpisodes(df_csv) : GroupRows(df, k) = {}
        /\ DuplicateEpisodes(df_csv) # {} =>
               dropped_report = Num(Cardinality(DuplicateEpisodes(df_csv)))
        /\ \A k \in Groups(df) : ~DuplicateEpisode(df, k)

\* an episode with a duplicate was dropped while another episode was retained
C1_Witness ==
    /\ cpc = "filtered"
    /\ DuplicateEpisodes(df_csv) # {}
    /\ Groups(df) # {}
    /\ Len(df) < Len(df_csv)

\* values of column col in group k
ColumnValues(t, k, col) == {t[i][col] : i \in GroupRows(t, k)}
OneToN(n) == {Num(v) : v \in 1..n}

Merged == pc = "returned" /\ attached # <<>>


\* the normalised name of candidate i / of result j
CandName(i) == lower(strip(candidates[i].name[1]))
ResName(j) == lower(strip(results[j].name[1]))
ExactHits(i) == {j \in DOMAIN results : usable_result(results[j]) /\ ResName(j) = CandName(i)}
SubstringHits(i) ==
    {j \in DOMAIN results :
        /\ usable_result(results[j])
        /\ \/ contains(ResName(j), CandName(i))
           \/ contains(CandName(i), ResName(j))}
FirstNameHits(i) ==
    {j \in DOMAIN results :
        /\ usable_result(results[j])
        /\ first_word(ResName(j)) = first_word(CandName(i))}
AnyHits(i) == ExactHits(i) \cup SubstringHits(i) \cup FirstNameHits(i)
First(S) == CHOOSE j \in S : \A k \in S : j <= k

\* C3: no order/rank result is attached to more than one candidate: two
\* candidates whose names differ (also after trim and lower-casing) never
\* receive the same result.
C3_ResultAttachedOnce ==
    Merged =>
        \A i, j \in DOMAIN attached :
            (CandName(i) # CandName(j) /\ attached[i] # NoMatch)
                => attached[i] # attached[j]

\* C4 (as stated): the attached result is chosen by match kind, exact before
\* substring before first name, whatever the position in the result list.
C4_Original ==
    Merged =>
        \A i \in DOMAIN candidates :
            CandName(i) # <<>> =>
                attached[i] = IF ExactHits(i) # {} THEN First(ExactHits(i))
                              ELSE IF SubstringHits(i) # {} THEN First(SubstringHits(i))
                              ELSE IF FirstNameHits(i) # {} THEN First(FirstNameHits(i))
                              ELSE NoMatch

\* C4 (amended): the attached result is the first result of the list that
\* matches by any kind (exact, substring in either direction, first name);
\* the kind of match gives no priority.
C4_Amended ==
    Merged =>
        \A i \in DOMAIN candidates :
            CandName(i) # <<>> =>
                attached[i] = IF AnyHits(i) # {} THEN First(AnyHits(i)) ELSE NoMatch

\* a candidate received an earlier substring match although a later result
\* equals its name
C4_Witness ==
    /\ Merged
    /\ \E i \in DOMAIN candidates :
           /\ CandName(i) # <<>>
           /\ ExactHits(i) # {}
           /\ attached[i] \in SubstringHits(i) \ ExactHits(i)
           /\ attached[i] < First(ExactHits(i))

(***************************************************************************)
(* Claims about the identity pass and the retry                            *)
(***************************************************************************)
\* the candidate set is complete: the next oracle call is the order/rank pass
AfterRetryStep == pc = "step2"

\* C5 (as stated): after the identity pass and the optional retry no two
\* candidates have (non-empty) names that are equal case-insensitively.
C5_Original ==
    AfterRetryStep =>
        \A i, j \in DOMAIN candidates :
            (i # j /\ candidates[i].name[1] # <<>>)
                => lower(candidates[i].name[1]) # lower(candidates[j].name[1])

\* C5 (amended): no candidate added by the retry has a name that is equal
\* case-insensitively to the name of an identity-pass candidate; names that
\* repeat inside the identity answer or inside the retry answer are kept.
C5_Amended ==
    (AfterRetryStep /\ found_names # <<>>) =>
        /\ Len(candidates) >= Len(found_names)
        /\ \A i \in DOMAIN found_names :
               /\ candidates[i].name[1] = found_names[i]
               /\ \A j \in (Len(found_names) + 1)..Len(candidates) :
                      lower(candidates[j].name[1]) # lower(found_names[i])

\* an identity pass one short of the expected count and a retry that
\* brought the missing candidate: all names distinct
C5_Witness ==
    /\ AfterRetryStep
    /\ Len(found_names) = expected_candidates - 1
    /\ Len(candidates) = expected_candidates
    /\ \A i, j \in DOMAIN candidates :
           i # j => lower(candidates[i].name[1]) # lower(candidates[j].name[1])

Last(s) == s[Len(s)]
CallOrders ==
    {<<>>, <<"identity">>, <<"identity", "retry">>, <<"identity", "order_rank">>,
     <<"identity", "retry", "order_rank">>}

\* C6: the oracle calls of one extraction are identity, at most one retry,
\* one order/rank pass, then the merge; the retry is issued only after an
\* identity pass that returned at least one but fewer candidates than
\* expected; at most 3 calls.
C6_CallOrder ==
    /\ calls \in CallOrders
    /\ Len(calls) <= 3
    /\ (\E k \in DOMAIN calls : calls[k] = "retry") =>
           (Len(found_names) >= 1 /\ Len(found_names) < expected_candidates)
    /\ pc = "step1" => calls = <<>>
    /\ pc = "retry" => calls = <<"identity">>
    /\ pc = "step2" => (calls # <<>> /\ Last(calls) # "order_rank")
    /\ (pc = "merge" \/ Merged) => (calls # <<>> /\ Last(calls) = "order_rank")
    /\ extraction_json # None => (calls # <<>> /\ Last(calls) = "order_rank")

\* a finished extraction with three calls whose candidate count is still short
C6_Witness ==
    /\ Merged
    /\ extraction_json # None
    /\ calls = <<"identity", "retry", "order_rank">>
    /\ Len(candidates) < expected_candidates

(***************************************************************************)
(* Claims about batch_extract                                              *)
(***************************************************************************)
\* C7: after an oracle call that raised or returned malformed JSON the
\* extraction returns None at once, nothing is written or recorded for the
\* episode, and batch_extract goes on with the next transcript.
C7_OracleFailure ==
    \A i \in DOMAIN oracle_failed :
        oracle_failed[i] =>
            /\ ~(pc = "raised" /\ idx = i)
            /\ extractions[i] = None
            /\ output_folder[i] = folder_at_start[i]
            /\ \/ i = idx /\ pc = "returned" /\ extraction_json = None
               \/ i < idx

\* batch_extract returned; an episode whose first oracle call succeeded and
\* a later one failed is missing, and a later episode was extracted
C7_Witness ==
    /\ pc = "done"
    /\ \E i, j \in DOMAIN oracle_failed :
           /\ i < j
           /\ oracle_failed[i] /\ oracle_calls[i] >= 2 /\ extractions[i] = None
           /\ oracle_calls[j] >= 2 /\ extractions[j] # None

\* C8: batch_extract always returns normally; a per-episode error never
\* aborts the batch or the pipeline.
C8_BatchCompletes == pc # "raised"

\* C9: with skip_existing, an episode whose result file exists when the run
\* starts gets no oracle call, its file stays as it is, and the returned dict
\* holds the persisted content for it.
C9_Resumable ==
    (skip_existing /\ run >= 1) =>
        \A i \in DOMAIN folder_at_start :
            folder_at_start[i].kind # "absent" =>
                /\ oracle_calls[i] = 0
                /\ output_folder[i] = folder_at_start[i]
                /\ pc = "done" => extractions[i] = folder_at_start[i].data

\* a second run returned: one episode was taken from its file without an
\* oracle call, another one, which had failed before, was extracted now
C9_Witness ==
    /\ skip_existing /\ run = 2 /\ pc = "done"
    /\ \E i, j \in DOMAIN folder_at_start :
           /\ folder_at_start[i].kind = "json" /\ oracle_calls[i] = 0
           /\ extractions[i] = folder_at_start[i].data
           /\ folder_at_start[j].kind = "absent" /\ oracle_calls[j] > 0
           /\ extractions[j] # None

(***************************************************************************)
(* Claims about the RecordExpander                                         *)
(***************************************************************************)
\* C10: a merged episode JSON with k candidates yields exactly k rows, in
\* list order, all with the episode's date, season, episode, moderator and
\* juror; with a null moderator or juror the fields of the k rows are empty.
C10_RowsPerCandidate ==
    pc = "converted" =>
        \A i \in DOMAIN output_folder :
            output_folder[i].kind = "json" =>
                LET data == output_folder[i].data[1]
                    f == transcript_files[i]
                IN  /\ Len(file_rows[i]) = Len(data.candidates)
                    /\ \A k \in DOMAIN file_rows[i] :
                           /\ file_rows[i][k].candidate_name = data.candidates[k].name
                           /\ file_rows[i][k].date = f.date
                           /\ file_rows[i][k].season = f.season
                           /\ file_rows[i][k].episode = f.episode
                           /\ file_rows[i][k].moderator_name =
                                  IF data.moderator = None THEN EmptyStr
                                  ELSE data.moderator[1].name
                           /\ file_rows[i][k].juror =
                                  IF data.juror = None THEN EmptyStr
                                  ELSE data.juror[1].name

(***************************************************************************)
(* Claims about the imputation                                             *)
(***************************************************************************)
SameWeek(t, i, j) ==
    ~IsNull(t[i].date) /\ ~IsNull(t[j].date) /\ t[i].date[1] \div 7 = t[j].date[1] \div 7
\* rows of the week of row i that have a value in col, before and after row i
KnownBefore(t, i, col) == {j \in DOMAIN t : j < i /\ SameWeek(t, i, j) /\ ~IsNull(t[j][col])}
KnownAfter(t, i, col) == {j \in DOMAIN t : j > i /\ SameWeek(t, i, j) /\ ~IsNull(t[j][col])}
Nearest(S, i) == CHOOSE j \in S : \A n \in S : (IF n < i THEN n <= j ELSE j <= n)
Imputed(t, i, col) ==
    IF ~IsNull(t[i][col]) THEN t[i][col]
    ELSE IF KnownBefore(t, i, col) # {} THEN t[Nearest(KnownBefore(t, i, col), i)][col]
    ELSE IF KnownAfter(t, i, col) # {} THEN t[Nearest(KnownAfter(t, i, col), i)][col]
    ELSE NaN

\* C11: within a reporting week a missing moderator name / gender is taken
\* from the nearest preceding row of the week that has one, else from the
\* nearest following one; a value that is present is kept.
C11_ModeratorImputation ==
    cpc = "imputed" =>
        \A i \in DOMAIN df_csv :
            ~IsNull(df_csv[i].date) =>
                /\ df[i].moderator_name = Imputed(df_csv, i, "moderator_name")
                /\ df[i].moderator_gender = Imputed(df_csv, i, "moderator_gender")

\* three episodes of one week, the moderator given only in the first: all
\* three carry that moderator after the imputation
C11_Witness ==
    /\ cpc = "imputed" /\ Len(df_csv) = 3
    /\ Cardinality({df_csv[i].episode : i \in 1..3}) = 3
    /\ \A i \in 1..3 : SameWeek(df_csv, 1, i)
    /\ df_csv[1].moderator_name = Poletto[1] /\ df_csv[1].moderator_gender = Poletto[2]
    /\ \A i \in 2..3 : IsNull(df_csv[i].moderator_name) /\ IsNull(df_csv[i].moderator_gender)
    /\ \A i \in 1..3 : df[i].moderator_name = Poletto[1] /\ df[i].moderator_gender = Poletto[2]

\* C12: a missing juror name / gender is filled within the reporting week
\* like the moderator, and female_jur is computed from the filled value.
C12_JurorImputation ==
    /\ cpc = "imputed" =>
           \A i \in DOMAIN df_csv :
               ~IsNull(df_csv[i].date) =>
                   /\ df[i].juror = Imputed(df_csv, i, "juror")
                   /\ df[i].juror_gender = Imputed(df_csv, i, "juror_gender")
    /\ cpc = "variables" =>
           \A i \in DOMAIN df :
               (\E j \in DOMAIN df : SameWeek(df, i, j) /\ str_lower(df[j].juror_gender) = Num("w"))
                   => (IsNull(df[i].juror_gender) => df[i].female_jur = 1)

(***************************************************************************)
(* Claims about RecordExpander and clean_dataframe                         *)
(***************************************************************************)
FilesInNameOrder == [i \in DOMAIN output_folder |-> i]

\* C13: the cleaned rows and their order do not depend on the order in which
\* the JSON files were enumerated: they are the rows obtained when the files
\* are read in the order of the folder listing used as reference.
C13_OrderIndependent ==
    pc = "cleaned" => cleaned_df = clean_dataframe(concat_rows(FilesInNameOrder, file_rows))

(***************************************************************************)
(* Claims about the episode summary table                                  *)
(***************************************************************************)
SummaryRows(k) == {n \in DOMAIN episode_df : <<episode_df[n].year, episode_df[n].episode>> = k}

\* C14: in every row of the episode summary table each of the seven binary
\* columns is 0 or 1, never null.
C14_BinaryColumns ==
    cpc = "aggregated" =>
        \A n \in DOMAIN episode_df :
            \A c \in {"female_winner", "female_eliminated", "female_moderator",
                      "first_probing_winner", "first_probing_eliminated",
                      "last_probing_winner", "last_probing_eliminated"} :
                episode_df[n][c] \in {Num(0), Num(1)}

\* an episode without moderator, without a row of rank 1 and with all probing
\* orders missing has a summary row
C14_Witness ==
    /\ cpc = "aggregated"
    /\ \E n \in DOMAIN episode_df :
           LET rows == GroupRows(df, <<episode_df[n].year, episode_df[n].episode>>)
           IN  /\ Cardinality(rows) >= 2
               /\ \A i \in rows :
                      /\ IsNull(df[i].moderator_gender)
                      /\ df[i].ranking_number # Num(1)
                      /\ IsNull(df[i].order_of_probing)
               /\ episode_df[n].female_winner = Num(0)
               /\ episode_df[n].last_probing_eliminated = Num(0)

IsW(row) == str_lower(row.candidate_gender) = Num("w")
\* the rows of episode k whose rank is the largest rank of the episode
LastPlaced(t, k) ==
    {i \in GroupRows(t, k) :
        /\ ~IsNull(t[i].ranking_number)
        /\ \A j \in GroupRows(t, k) :
               ~IsNull(t[j].ranking_number) => t[j].ranking_number[1] <= t[i].ranking_number[1]}
FirstPlaced(t, k) == {i \in GroupRows(t, k) : t[i].ranking_number = Num(1)}
WinnerFlags(n) ==
    LET k == <<episode_df[n].year, episode_df[n].episode>>
    IN  /\ episode_df[n].female_winner =
               Num(IF \E i \in FirstPlaced(df, k) : IsW(df[i]) THEN 1 ELSE 0)
        /\ episode_df[n].female_eliminated =
               Num(IF \E i \in LastPlaced(df, k) : IsW(df[i]) THEN 1 ELSE 0)

\* C15: female_winner / female_eliminated tell whether the row of rank 1 /
\* of the largest rank has gender w (0 without such a row), and
\* share_female_candidates is (rows with gender w) / (candidate rows).
C15_WinnerEliminatedShare ==
    cpc = "aggregated" =>
        \A n \in DOMAIN episode_df :
            LET rows == GroupRows(df, <<episode_df[n].year, episode_df[n].episode>>)
                share == episode_df[n].share_female_candidates
            IN  /\ WinnerFlags(n)
                /\ share.den # 0
                /\ share.num * Cardinality(rows)
                       = Cardinality({i \in rows : IsW(df[i])}) * share.den

\* C16: the episode summary table has exactly one row for each (season,
\* episode) pair of the cleaned candidate table and no other row; the left
\* joins neither duplicate nor remove a row of the basic aggregation.
C16_OneRowPerEpisode ==
    cpc = "aggregated" =>
        /\ \A k \in Groups(df) : Cardinality(SummaryRows(k)) = 1
        /\ \A n \in DOMAIN episode_df : <<episode_df[n].year, episode_df[n].episode>> \in Groups(df)
        /\ Len(episode_df) = Len(BasicAggregation(df))

\* two episodes were aggregated; one has several candidate rows and a winner,
\* the other has no winner row and no row probed first
C16_Witness ==
    /\ cpc = "aggregated"
    /\ Len(episode_df) = 2
    /\ \E k \in Groups(df) : Cardinality(GroupRows(df, k)) >= 2
    /\ \E k \in Groups(df) : \E i \in GroupRows(df, k) : df[i].winner = 1
    /\ \E k \in Groups(df) :
           \A i \in GroupRows(df, k) : df[i].winner = 0 /\ df[i].order_of_probing # Num(1)

(***************************************************************************)
(* Claims about the expected candidate count                               *)
(***************************************************************************)
Extracting == pc \in {"step1", "retry", "step2", "merge"}
\* the candidate count given by the metadata of the current transcript
CountHint ==
    IF video_folder /\ transcript_files[idx].meta.file = "ok"
    THEN transcript_files[idx].meta.parsed.num_candidates
    ELSE None
\* Monday .. Sunday
WeekdayCounts == <<6, 5, 4, 3, 2, 5, 5>>

\* C17: the expected candidate count is the metadata hint when there is a
\* non-null, non-zero one, else the count of the weekday of the episode date
\* (Mon 6, Tue 5, Wed 4, Thu 3, Fri 2, Sat/Sun 5), and 5 for an unparsable date.
C17_ExpectedCount ==
    Extracting =>
        LET date == transcript_files[idx].date[1]
        IN  expected_candidates =
                IF CountHint # None /\ CountHint # Num(0) THEN CountHint[1]
                ELSE IF date.parses THEN WeekdayCounts[date.weekday + 1]
                ELSE 5

\* a Saturday episode whose metadata give the count 0: five are expected
C17_Witness ==
    /\ Extracting
    /\ CountHint = Num(0)
    /\ transcript_files[idx].date[1].parses /\ transcript_files[idx].date[1].weekday = 5
    /\ expected_candidates = 5

(***************************************************************************)
(* Claims about the derived variables                                      *)
(***************************************************************************)
\* the rows of the episode of row i, and the largest rank among them
EpisodeOf(t, i) == {j \in DOMAIN t : GroupKey(t[j]) = GroupKey(t[i])}
IsLargestRank(t, i) ==
    /\ ~IsNull(t[i].ranking_number)
    /\ \A j \in EpisodeOf(t, i) :
           ~IsNull(t[j].ranking_number) => t[j].ranking_number[1] <= t[i].ranking_number[1]
FlagsOfRow(t, i) ==
    /\ t[i].winner = (IF t[i].ranking_number = Num(1) THEN 1 ELSE 0)
    /\ HasKey(t[i]) => t[i].eliminated = (IF IsLargestRank(t, i) THEN 1 ELSE 0)
    /\ IsNull(t[i].ranking_number) => t[i].winner = 0 /\ t[i].eliminated = 0
    /\ t[i].female_cand = (IF t[i].candidate_gender \in {Num("w"), Num("W")} THEN 1 ELSE 0)
    /\ t[i].female_jur = (IF t[i].juror_gender \in {Num("w"), Num("W")} THEN 1 ELSE 0)

\* C18: winner marks the rows of rank 1, eliminated the rows whose rank is the
\* largest non-null rank of their episode, both are 0 for a null rank, and
\* female_cand / female_jur mark the gender w in either case.
C18_DerivedFlags ==
    cpc = "variables" => \A i \in DOMAIN df : FlagsOfRow(df, i)

\* an episode with the ranks 1 and 3 and a row without rank: the row of rank
\* 1, of gender W, is the winner, the row of rank 3 is eliminated
C18_Witness ==
    /\ cpc = "variables" /\ Len(df) = 3
    /\ \A i \in 1..3 : HasKey(df[i]) /\ GroupKey(df[i]) = GroupKey(df[1])
    /\ \E i, j, n \in 1..3 :
           /\ df[i].ranking_number = Num(1) /\ df[i].candidate_gender = Num("W")
           /\ df[i].winner = 1 /\ df[i].eliminated = 0 /\ df[i].female_cand = 1
           /\ df[j].ranking_number = Num(3) /\ df[j].winner = 0 /\ df[j].eliminated = 1
           /\ IsNull(df[n].ranking_number) /\ df[n].winner = 0 /\ df[n].eliminated = 0

(***************************************************************************)
(* Claims about the merged candidates                                      *)
(***************************************************************************)
\* the value of a key of a result, null when the result does not have the key
ValueOrNull(v) == IF v = Missing THEN None ELSE v

\* C19: after the merge every candidate has a probing_order and a ranking
\* field: both null when the result list is empty, when the candidate name is
\* empty or when no result matches, else the two values of the matched
\* result (null for a value the result lacks).
C19_MergeFields ==
    Merged =>
        \A i \in DOMAIN candidates :
            /\ candidates[i].probing_order # Missing
            /\ candidates[i].ranking # Missing
            /\ IF results = <<>> \/ CandName(i) = <<>> \/ AnyHits(i) = {}
               THEN candidates[i].probing_order = None /\ candidates[i].ranking = None
               ELSE /\ candidates[i].probing_order
                          = ValueOrNull(results[First(AnyHits(i))].probing_order)
                    /\ candidates[i].ranking
                          = ValueOrNull(results[First(AnyHits(i))].ranking)

\* one candidate is matched to a result without ranking, one has an empty
\* name and so gets no result
C19_Witness ==
    /\ Merged
    /\ results # <<>>
    /\ \E i, j \in DOMAIN candidates :
           /\ CandName(i) # <<>> /\ AnyHits(i) # {}
           /\ results[First(AnyHits(i))].ranking = Missing
           /\ candidates[i].probing_order # None /\ candidates[i].ranking = None
           /\ CandName(j) = <<>>
           /\ candidates[j].probing_order = None /\ candidates[j].ranking = None

\* a candidate as the identity pass returned it, whatever the merge added
Identity(c) ==
    [name |-> c.name, gender |-> c.gender, age |-> c.age, location |-> c.location,
     profession |-> c.profession, dish |-> c.dish]

\* C20: when the identity pass returned more candidates than expected, no
\* retry is issued and the list reaches the order/rank pass unchanged and
\* the merged record with the same candidates in the same order.
C20_MoreThanExpected ==
    (pc \in {"retry", "step2", "merge", "returned"}
        /\ Len(candidates_data) > expected_candidates) =>
        /\ pc # "retry"
        /\ \A n \in DOMAIN calls : calls[n] # "retry"
        /\ pc \in {"step2", "merge"} => candidates = candidates_data
        /\ Len(candidates) = Len(candidates_data)
        /\ \A i \in DOMAIN candidates : Identity(candidates[i]) = Identity(candidates_data[i])
        /\ (pc = "returned" /\ extraction_json # None) =>
               /\ Len(extraction_json[1].candidates) = Len(candidates_data)
               /\ \A i \in DOMAIN candidates_data :
                      Identity(extraction_json[1].candidates[i]) = Identity(candidates_data[i])

\* two candidates were returned where one was expected, and both are in the
\* merged record
C20_Witness ==
    /\ pc = "returned" /\ extraction_json # None
    /\ expected_candidates = 1
    /\ Len(candidates_data) = 2
    /\ Len(extraction_json[1].candidates) = 2
    /\ calls = <<"identity", "order_rank">>

(***************************************************************************)
(* C21: an episode whose file name yields no date                          *)
(***************************************************************************)
Undated(i) == transcript_files[i].date = None

\* what a run has done for transcript i once the loop has reached it
UndatedUntouched(i) ==
    /\ extractions[i] = None
    /\ oracle_calls[i] = 0
    /\ ~oracle_failed[i]
    /\ output_folder[i] = folder_at_start[i]
    /\ idx = i => pc = "loop"
    /\ pc = "converted" => file_rows[i] = <<>>

\* the iteration of batch_extract over an undated transcript only advances
\* the loop
UndatedStep ==
    (pc = "loop" /\ idx <= Len(transcript_files) /\ Undated(idx)) =>
        /\ idx' = idx + 1
        /\ pc' = "loop"
        /\ UNCHANGED <<output_folder, extractions, oracle_calls, oracle_failed, extract_vars>>

\* C21: a transcript whose name yields no date is skipped before anything
\* else: batch_extract reads no metadata for it (an unreadable metadata file
\* does not stop the run), loads no persisted result (a corrupt result file
\* does not stop the run, extractions has no entry), calls the oracle not
\* once and leaves its result file as it was; folder_to_dataframe produces
\* no row for it; the iteration only advances the loop, so the other
\* transcripts are processed as without it.
C21_UndatedSkipped ==
    /\ [](\A i \in DOMAIN transcript_files :
            (run >= 1 /\ Undated(i)) => UndatedUntouched(i))
    /\ [][UndatedStep]_vars

\* an undated transcript with an unreadable metadata file and a persisted
\* result was passed, the next transcript was extracted and converted
C21_Witness ==
    /\ pc = "converted"
    /\ video_folder /\ skip_existing
    /\ Len(transcript_files) = 2
    /\ Undated(1)
    /\ transcript_files[1].meta = UnreadableMetadataFile
    /\ output_folder[1] = JsonFile(ConvertibleData)
    /\ ~Undated(2)
    /\ oracle_calls[2] > 0
    /\ extractions[2] # None
    /\ file_rows[2] # <<>>

(***************************************************************************)
(* C22: numeric coercion in the cleaner                                    *)
(***************************************************************************)
\* the number a raw value stands for, NaN when it stands for none
NumericValue(v) ==
    IF v = None THEN NaN
    ELSE IF Len(v) = 1 THEN v
    ELSE IF v[1] \in {"1"} THEN Num(1)
    ELSE IF v[1] \in {"2", " 2 "} THEN Num(2)
    ELSE IF v[1] \in {"30 "} THEN Num(30)
    ELSE NaN
NumericColumns == {"order_of_probing", "ranking_number", "candidate_age"}

\* C22: in the cleaned table each of probing order, ranking and age holds
\* the number its raw value stands for (a number or a numeric string), and
\* null for a raw value that stands for none, whatever else the column
\* holds.
C22_NumericCoercion ==
    pc = "cleaned" =>
        /\ Len(cleaned_df) = Len(all_rows)
        /\ \A i \in DOMAIN all_rows : \A col \in NumericColumns :
               cleaned_df[i][col] = NumericValue(all_rows[i][col])

\* C22 on the columns that hold no str next to a number
C22_UnmixedColumns ==
    pc = "cleaned" =>
        /\ Len(cleaned_df) = Len(all_rows)
        /\ \A i \in DOMAIN all_rows : \A col \in NumericColumns :
               (~\E j, k \in DOMAIN all_rows :
                     /\ Len(all_rows[j][col]) = 1 /\ Len(all_rows[k][col]) = 2)
                   => cleaned_df[i][col] = NumericValue(all_rows[i][col])

(***************************************************************************)
(* C23: gender canonicalization                                            *)
(***************************************************************************)
\* the synonym table of the claim, in every case that occurs
Canonical(v) ==
    IF v = None THEN None
    ELSE IF v[1] \in {"ma^nnlich", "MA^NNLICH", "male", "Male", "MALE", "man"} THEN Num("m")
    ELSE IF v[1] \in {"weiblich", "Weiblich", "female", "FEMALE", "woman"} THEN Num("w")
    ELSE IF v[1] \in {"divers", "Divers", "diverse", "DIVERSE", "other"} THEN Num("d")
    ELSE v
GenderColumns == {"moderator_gender", "candidate_gender", "juror_gender"}

\* C23: each gender field of the cleaned table holds the canonical letter
\* of a synonym of the table, in whatever case it was written, and any
\* other value exactly as it was; canonicalizing the cleaned value again
\* changes nothing.
C23_GenderCanonical ==
    pc = "cleaned" =>
        /\ Len(cleaned_df) = Len(all_rows)
        /\ \A i \in DOMAIN all_rows : \A col \in GenderColumns :
               /\ cleaned_df[i][col] = Canonical(all_rows[i][col])
               /\ gender_mapping(cleaned_df[i][col]) = cleaned_df[i][col]

\* a synonym in upper case, a canonical letter in upper case and a spelling
\* that is not in the table went through the cleaner
C23_Witness ==
    /\ pc = "cleaned"
    /\ all_rows[1].candidate_gender = Num("MA^NNLICH") /\ cleaned_df[1].candidate_gender = Num("m")
    /\ all_rows[1].juror_gender = Num("W") /\ cleaned_df[1].juror_gender = Num("W")
    /\ all_rows[1].moderator_gender = Num("maennlich")
    /\ cleaned_df[1].moderator_gender = Num("maennlich")

(***************************************************************************)
(* C24: outcome of the candidate probed first / last                       *)
(***************************************************************************)
ProbedFirst(t, k) == {i \in GroupRows(t, k) : t[i].order_of_probing = Num(1)}
ProbedLast(t, k) ==
    {i \in GroupRows(t, k) :
        /\ ~IsNull(t[i].order_of_probing)
        /\ \A j \in GroupRows(t, k) :
               ~IsNull(t[j].order_of_probing)
                   => t[j].order_of_probing[1] <= t[i].order_of_probing[1]}
\* the summary columns w and e hold the flags of the rows of the set, 0
\* when the set is empty
FlagsOf(n, rows, w, e) ==
    /\ rows = {} => episode_df[n][w] = Num(0) /\ episode_df[n][e] = Num(0)
    /\ \A i \in rows :
           /\ episode_df[n][w] = Num(df[i].winner)
           /\ episode_df[n][e] = Num(df[i].eliminated)

\* C24: in every row of the summary table first_probing_winner /
\* first_probing_eliminated are the winner / eliminated flag of the row of
\* the episode whose probing order is 1, last_probing_winner /
\* last_probing_eliminated those of the row whose probing order is the
\* largest non-null probing order of the episode, and 0 when the episode has
\* no such row.
C24_ProbingFlags ==
    cpc = "aggregated" =>
        \A n \in DOMAIN episode_df :
            LET k == <<episode_df[n].year, episode_df[n].episode>>
            IN  /\ FlagsOf(n, ProbedFirst(df, k), "first_probing_winner", "first_probing_eliminated")
                /\ FlagsOf(n, ProbedLast(df, k), "last_probing_winner", "last_probing_eliminated")

\* an episode with three rows: the row probed first is the winner, the row
\* probed last is eliminated and is not the first row of the episode
C24_Witness ==
    /\ cpc = "aggregated"
    /\ \E n \in DOMAIN episode_df :
           LET k == <<episode_df[n].year, episode_df[n].episode>>
           IN  /\ Cardinality(GroupRows(df, k)) = 3
               /\ \E i \in ProbedFirst(df, k) : df[i].winner = 1
               /\ \E i \in ProbedLast(df, k) :
                      /\ df[i].eliminated = 1
                      /\ \E j \in GroupRows(df, k) : j < i
               /\ episode_df[n].first_probing_winner = Num(1)
               /\ episode_df[n].last_probing_eliminated = Num(1)
               /\ episode_df[n].first_probing_eliminated = Num(0)
               /\ episode_df[n].last_probing_winner = Num(0)

(***************************************************************************)
(* C25: video cleanup safety                                               *)
(***************************************************************************)
Deleted(i) == video_files[i].state = "deleted"
\* the extraction of the video's transcript was tried in this run and
\* returned nothing
ExtractionFailed(i) ==
    /\ video_files[i].stem > 0
    /\ oracle_calls[video_files[i].stem] > 0
    /\ extractions[video_files[i].stem] = None

\* a deleted video had its transcript and its result file when it was
\* deleted, and was deleted after the four steps before had succeeded
C25_DeletedAfterSuccess ==
    \A i \in DOMAIN video_files :
        Deleted(i) =>
            /\ video_files[i].deleted_with[1].transcript
            /\ video_files[i].deleted_with[1].extraction
            /\ pc = "finished" /\ run = 1
            /\ all_rows # <<>> /\ cleaned_df # <<>>

\* C25: a video is deleted only if its transcript and its result file
\* existed at that moment; the cleanup runs only after transcription,
\* extraction, data-frame creation and save/analysis succeeded; a video
\* whose extraction failed is never deleted.
C25_CleanupSafety ==
    /\ C25_DeletedAfterSuccess
    /\ \A i \in DOMAIN video_files : Deleted(i) => ~ExtractionFailed(i)

\* C25 for the runs that take existing result files over
C25_WithSkipExisting == skip_existing => C25_CleanupSafety

(***************************************************************************)
(* Claims about the persisted result files                                 *)
(***************************************************************************)
\* the extraction of transcript i was tried in this run and returned nothing
FailedInRun(i) ==
    /\ run >= 1 /\ i < idx
    /\ oracle_calls[i] > 0
    /\ extractions[i] = None

\* every result file holds a non-empty candidates list, juror and moderator
PersistedWellFormed ==
    \A i \in DOMAIN output_folder :
        output_folder[i].kind # "absent" =>
            /\ output_folder[i].kind = "json"
            /\ {"candidates", "juror", "moderator"} \subseteq DOMAIN output_folder[i].data[1]
            /\ output_folder[i].data[1].candidates # <<>>

\* a failed extraction writes nothing, and a run with skip_existing calls
\* the oracle for every dated episode that has no result file
C26_WrittenOnSuccess ==
    /\ PersistedWellFormed
    /\ \A i \in DOMAIN output_folder :
           /\ FailedInRun(i) => output_folder[i] = folder_at_start[i]
           /\ (FailedInRun(i) /\ skip_existing) => output_folder[i].kind = "absent"
           /\ (run = 2 /\ skip_existing /\ i < idx /\ transcript_files[i].date # None
                  /\ folder_at_start[i].kind = "absent") => oracle_calls[i] > 0

\* C26: a result file is written only when the extraction succeeded with at
\* least one candidate: every result file has a non-empty candidates list
\* and the keys juror and moderator, and after a failed extraction no result
\* file exists for the episode, so that a later run with skip_existing calls
\* the oracle for it again.
C26_NoFileAfterFailure ==
    /\ PersistedWellFormed
    /\ \A i \in DOMAIN output_folder :
           FailedInRun(i) => output_folder[i].kind = "absent"

(***************************************************************************)
(* Claims about the bounds of the summary counts                           *)
(***************************************************************************)
\* a quotient of two counts that lies between 0 and 1 (not inf, not NaN)
InUnitInterval(q) == q.den > 0 /\ 0 <= q.num /\ q.num <= q.den

\* C27: in every row of the episode summary table n_female_candidates is at
\* most n_candidates and share_female_candidates lies between 0 and 1, also
\* for episodes with a row whose candidate name is empty or missing.
C27_ShareBounds ==
    cpc = "aggregated" =>
        \A n \in DOMAIN episode_df :
            /\ episode_df[n].n_female_candidates <= episode_df[n].n_candidates
            /\ InUnitInterval(episode_df[n].share_female_candidates)

\* the bounds hold for the episodes all of whose rows have a candidate name
C27_NamedRows ==
    cpc = "aggregated" =>
        \A n \in DOMAIN episode_df :
            (\A i \in GroupRows(df, <<episode_df[n].year, episode_df[n].episode>>) :
                 ~IsNull(df[i].candidate_name)) =>
                /\ episode_df[n].n_female_candidates <= episode_df[n].n_candidates
                /\ InUnitInterval(episode_df[n].share_female_candidates)

(***************************************************************************)
(* Claims about the outcome flags of a retained episode                    *)
(***************************************************************************)
Ranked(t, k) == {i \in GroupRows(t, k) : ~IsNull(t[i].ranking_number)}
WinnerRows(t, k) == {i \in GroupRows(t, k) : t[i].winner = 1}
EliminatedRows(t, k) == {i \in GroupRows(t, k) : t[i].eliminated = 1}

\* C28: in every (season, episode) group of the cleaned candidate table with
\* at least one non-null ranking exactly one row has eliminated = 1 and at
\* most one row has winner = 1; a row has both flags only when the largest
\* ranking of its episode is 1.
C28_OneEliminated ==
    cpc \in {"variables", "aggregated"} =>
        \A k \in Groups(df) :
            Ranked(df, k) # {} =>
                /\ Cardinality(EliminatedRows(df, k)) = 1
                /\ Cardinality(WinnerRows(df, k)) <= 1
                /\ \A i \in WinnerRows(df, k) \cap EliminatedRows(df, k) :
                       \A j \in Ranked(df, k) : df[j].ranking_number[1] <= 1

\* a retained episode of three rows: the winner, the eliminated row and a
\* row without ranking
C28_Witness ==
    /\ cpc = "variables"
    /\ \E k \in Groups(df) :
           /\ Cardinality(GroupRows(df, k)) = 3
           /\ Cardinality(Ranked(df, k)) = 2
           /\ Cardinality(WinnerRows(df, k)) = 1
           /\ WinnerRows(df, k) \cap EliminatedRows(df, k) = {}

(***************************************************************************)
(* Claims about the frame of the moderator imputation                      *)
(***************************************************************************)
ModeratorColumns == {"moderator_name", "moderator_gender"}

\* a value that is present is kept
KeepsPresent(i, col) == ~IsNull(df_csv[i][col]) => df[i][col] = df_csv[i][col]
\* a value filled into a gap is present in a row of the same reporting week
FilledFromWeek(i, col) ==
    (IsNull(df_csv[i][col]) /\ ~IsNull(df[i][col])) =>
        \E j \in DOMAIN df_csv :
            /\ ~IsNull(year_week(df_csv[i]))
            /\ year_week(df_csv[j]) = year_week(df_csv[i])
            /\ df_csv[j][col] = df[i][col]
\* the rows of a week without any value keep a null value
EmptyWeekStaysNull(i, col) ==
    (\A j \in DOMAIN df_csv :
         year_week(df_csv[j]) = year_week(df_csv[i]) => IsNull(df_csv[j][col]))
        => IsNull(df[i][col])

\* C29: the moderator imputation only fills gaps and stays inside the week:
\* a present moderator name (gender) is kept, a filled value is present in a
\* row with the same reporting-week key, and the rows of a week in which no
\* row has a moderator keep a null moderator.
C29_FillsGapsOnly ==
    cpc = "imputed" =>
        \A i \in DOMAIN df_csv : \A col \in ModeratorColumns :
            /\ KeepsPresent(i, col)
            /\ FilledFromWeek(i, col)
            /\ EmptyWeekStaysNull(i, col)

\* the same for the rows that have a date
C29_DatedRows ==
    cpc = "imputed" =>
        \A i \in DOMAIN df_csv : \A col \in ModeratorColumns :
            /\ ~IsNull(df_csv[i].date) => KeepsPresent(i, col)
            /\ FilledFromWeek(i, col)
            /\ EmptyWeekStaysNull(i, col)

(***************************************************************************)
(* Claims about rows without season or episode identifier                  *)
(***************************************************************************)
\* the rows that carry the same identifiers as row i, missing ones included
SameIdentifiers(t, i) == {j \in DOMAIN t : GroupKey(t[j]) = GroupKey(t[i])}
RepeatsValue(t, i, col) ==
    \E a, b \in SameIdentifiers(t, i) :
        a # b /\ ~IsNull(t[a][col]) /\ t[a][col] = t[b][col]

\* C30: every row of the cleaned candidate table belongs to a (season,
\* episode) group that the validity filter checked and that has a row in the
\* episode summary table; rows without season or episode identifier are
\* neither retained with repeated rankings or probing orders nor left out of
\* the summary.
C30_EveryRowInGroup ==
    cpc = "aggregated" =>
        \A i \in DOMAIN df :
            /\ GroupKey(df[i]) \in Groups(df)
            /\ ~RepeatsValue(df, i, "ranking_number")
            /\ ~RepeatsValue(df, i, "order_of_probing")
            /\ \E n \in DOMAIN episode_df :
                   <<episode_df[n].year, episode_df[n].episode>> = GroupKey(df[i])

\* the same for the rows that have both identifiers
C30_IdentifiedRows ==
    cpc = "aggregated" =>
        \A i \in DOMAIN df :
            HasKey(df[i]) =>
                /\ GroupKey(df[i]) \in Groups(df)
                /\ ~RepeatsValue(df, i, "ranking_number")
                /\ ~RepeatsValue(df, i, "order_of_probing")
                /\ \E n \in DOMAIN episode_df :
                       <<episode_df[n].year, episode_df[n].episode>> = GroupKey(df[i])

====
